---------------------------- MODULE Spec2Model ----------------------------
(***************************************************************************)
(* Brand monitoring flow (kthandra777/Agents, brand-monitoring):           *)
(*   BrightDataWebSearchTool._run   four site-restricted search queries    *)
(*   BrandMonitoringFlow.scrape_data  search + bucketing by platform       *)
(*   scrape_urls                    trigger / poll / snapshot protocol     *)
(*   BrandMonitoringFlow.scrape_data_and_analyse                           *)
(*                                  four platform tasks, gather, printing  *)
(*                                                                         *)
(* A URL is a sequence of tokens (host, path or query pieces); a token     *)
(* may be written in upper case and may contain a shorter marker as a      *)
(* substring, so that lower-casing and Python's `in` are both modelled.    *)
(***************************************************************************)
EXTENDS Integers, Sequences, FiniteSets, TLC

VARIABLES
    total_results,              \* BrandMonitoringState.total_results
    brand_name,                 \* BrandMonitoringState.brand_name
    llm_provider,               \* BrandMonitoringState.llm_provider
    search_response,            \* BrandMonitoringState.search_response
    queries,                    \* the search requests issued, in order
    search_served,              \* the response each search request got
    platform_search_response,   \* <platform>_search_response
    scrape_response,            \* <platform>_scrape_response
    filtered_scrape_response,   \* <platform>_filtered_scrape_response
    crew_response,              \* <platform>_crew_response
    fpc,                        \* position of the flow
    task,                       \* position of each platform's asyncio task
    log,                        \* messages printed by each platform's task
    calls,                      \* remote calls made for each platform
    served,                     \* what the remote services returned to each task
    sc,                         \* the frame of the scrape_urls call in progress
    credentials,                \* the credentials that are set (api_keys / os.environ)
    app,                        \* the caller of the flow: Streamlit app or command line
    collections,                \* DummyChromaDB.collections: name -> collection object
    objects,                    \* the DummyCollection objects created so far
    returned                    \* the last call made on the dummy client or a collection

vars == <<total_results, brand_name, llm_provider, search_response, queries,
          search_served,
          platform_search_response, scrape_response, filtered_scrape_response,
          crew_response, fpc, task, log, calls, served, sc, credentials, app,
          collections, objects, returned>>

configVars == <<total_results, brand_name, llm_provider>>
searchVars == <<search_response, queries, search_served, platform_search_response>>
resultVars == <<scrape_response, filtered_scrape_response, crew_response>>
entryVars  == <<credentials, app>>
chromaVars == <<collections, objects, returned>>
flowVars   == <<entryVars, configVars, searchVars, resultVars, fpc, task, log,
                 calls, served, sc>>

----------------------------------------------------------------------------
(* chromadb_dummy.py: the stand-in for the ChromaDB client and collection.  *)
(* A collection object is a record of its four lists; `objects` holds the   *)
(* objects in the order of their creation, so an object's identity is its   *)
(* position, and `collections` maps a registered name to that position.     *)

\* Ids of documents.
DocIds == {"a", "b"}

\* Most collection objects created.
MaxObjects == 3

CollectionNames == {"n1", "n2"}

Range(s) == {s[k] : k \in DOMAIN s}

\* The ids lists of the add and delete calls: empty, one id, an id twice,
\* two ids in either order.
IdSeqs ==
    { <<>>, <<"a">>, <<"b">>, <<"a", "a">>, <<"a", "b">>, <<"b", "a">> }

\* A value carries the id it was passed for and its position in the list of
\* the call, so that the values passed for one id differ between calls and
\* within a call that names the id twice.
Value(kind, id, pos) == [kind |-> kind, id |-> id, pos |-> pos]

\* {} and [0.0] * 10, the defaults of add.
DefaultMetadata == Value("metadata", "default", 0)

DefaultEmbedding == Value("embedding", "default", 0)

\* The first n values of the list a caller passes along with ids.  A list
\* that is None and a list that is empty are both falsy: both are <<>>.
ValuesFor(kind, ids, n) == [k \in 1..n |-> Value(kind, ids[k], k)]

AddArgs(ids, nd, nm, ne) ==
    [ids        |-> ids,
     documents  |-> ValuesFor("document", ids, nd),
     metadatas  |-> ValuesFor("metadata", ids, nm),
     embeddings |-> ValuesFor("embedding", ids, ne)]

\* DummyCollection.__init__
DummyCollection(name) ==
    [name |-> name, ids |-> <<>>, documents |-> <<>>, metadatas |-> <<>>,
     embeddings |-> <<>>]

\* The outcome of a method call: the object after it, and whether the call
\* ended with an IndexError.
Outcome(col, raised) == [col |-> col, raised |-> raised]

\* The loop of add from its i-th iteration, lines 19-24: an id that is
\* present is skipped; else the id is appended, then the document, the
\* metadata and the embedding, each read at index i of its list.  Reading
\* past the end of a list raises IndexError after the appends made so far.
RECURSIVE AddFrom(_, _, _)
AddFrom(col, a, i) ==
    IF i > Len(a.ids) THEN Outcome(col, FALSE)
    ELSE IF a.ids[i] \in Range(col.ids) THEN AddFrom(col, a, i + 1)
    ELSE LET c1 == [col EXCEPT !.ids = Append(@, a.ids[i])]
         IN  IF i > Len(a.documents) THEN Outcome(c1, TRUE)
             ELSE LET c2 == [c1 EXCEPT !.documents = Append(@, a.documents[i])]
                  IN  IF a.metadatas # <<>> /\ i > Len(a.metadatas)
                      THEN Outcome(c2, TRUE)
                      ELSE LET c3 == [c2 EXCEPT !.metadatas = Append(@,
                                         IF a.metadatas = <<>> THEN DefaultMetadata
                                         ELSE a.metadatas[i])]
                           IN  IF a.embeddings # <<>> /\ i > Len(a.embeddings)
                               THEN Outcome(c3, TRUE)
                               ELSE AddFrom(
                                       [c3 EXCEPT !.embeddings = Append(@,
                                           IF a.embeddings = <<>> THEN DefaultEmbedding
                                           ELSE a.embeddings[i])], a, i + 1)

\* DummyCollection.add, lines 18-25.
CollectionAdd(col, a) ==
    IF a.documents # <<>> /\ a.ids # <<>> THEN AddFrom(col, a, 1)
    ELSE Outcome(col, FALSE)

\* list.pop(k), for k within the list (positions from 1).
Pop(s, k) == [j \in 1..(Len(s) - 1) |-> IF j < k THEN s[j] ELSE s[j + 1]]

\* The loop of delete from its j-th iteration, lines 50-56: the four lists
\* are popped at the position of the id in ids; popping past the end of a
\* list raises IndexError after the pops made so far.
RECURSIVE DeleteFrom(_, _, _)
DeleteFrom(col, ids, j) ==
    IF j > Len(ids) THEN Outcome(col, FALSE)
    ELSE IF ids[j] \notin Range(col.ids) THEN DeleteFrom(col, ids, j + 1)
    ELSE LET idx == CHOOSE k \in DOMAIN col.ids :
                       /\ col.ids[k] = ids[j]
                       /\ \A m \in 1..(k - 1) : col.ids[m] # ids[j]
             c1  == [col EXCEPT !.ids = Pop(@, idx)]
         IN  IF idx > Len(col.documents) THEN Outcome(c1, TRUE)
             ELSE LET c2 == [c1 EXCEPT !.documents = Pop(@, idx)]
                  IN  IF idx > Len(col.metadatas) THEN Outcome(c2, TRUE)
                      ELSE LET c3 == [c2 EXCEPT !.metadatas = Pop(@, idx)]
                           IN  IF idx > Len(col.embeddings) THEN Outcome(c3, TRUE)
                               ELSE DeleteFrom([c3 EXCEPT !.embeddings = Pop(@, idx)],
                                               ids, j + 1)

\* DummyCollection.delete, lines 49-57.
CollectionDelete(col, ids) ==
    IF ids # <<>> THEN DeleteFrom(col, ids, 1) ELSE Outcome(col, FALSE)

\* What a call left in `returned`: the method, the object it was made on (0
\* for a method of the client), the name or the ids it was given, the
\* collection object it returned (0 for a method that returns True) and
\* whether it ended with an exception.
Called(op, target, name, ids, object, raised) ==
    [op |-> op, target |-> target, name |-> name, ids |-> ids,
     object |-> object, raised |-> raised]

NotCalled == Called("none", 0, "", <<>>, 0, FALSE)

\* No dummy client exists: the state of the flow's specifications.
NoClient ==
    /\ collections = <<>>
    /\ objects = <<>>
    /\ returned = NotCalled

----------------------------------------------------------------------------
(* Platforms, in the order of the if/elif chain and of the task list.      *)

PlatformOrder == <<"linkedin", "instagram", "youtube", "x">>

Platforms == {PlatformOrder[i] : i \in DOMAIN PlatformOrder}

PlatformIndex(p) == CHOOSE i \in DOMAIN PlatformOrder : PlatformOrder[i] = p

\* The domain markers tested for each platform in scrape_data.
Markers(p) ==
    CASE p = "linkedin"  -> {"linkedin.com"}
      [] p = "instagram" -> {"instagram.com"}
      [] p = "youtube"   -> {"youtube.com", "youtu.be"}
      [] p = "x"         -> {"x.com", "twitter.com"}

\* The scraping_type string each task passes to scrape_urls.
ScrapingType(p) == IF p = "x" THEN "twitter" ELSE p

BucketCap == 5

MaxTotalResults == 5

ResultLimits == 1..MaxTotalResults

----------------------------------------------------------------------------
(* Strings.  str.lower() on a token, and the substrings of a lower-case    *)
(* token that are domain markers.                                          *)

Lower(tok) ==
    CASE tok = "LinkedIn.com" -> "linkedin.com"
      [] tok = "YouTube.com"  -> "youtube.com"
      [] tok = "X.com"        -> "x.com"
      [] OTHER                -> tok

LowerUrl(url) == [i \in DOMAIN url |-> Lower(url[i])]

\* The marker-sized substrings of a token: "netflix.com" contains "x.com".
Substrings(tok) ==
    IF tok = "netflix.com" THEN {"netflix.com", "x.com"} ELSE {tok}

\* Python's `marker in url`.
Contains(marker, url) == \E i \in DOMAIN url : marker \in Substrings(url[i])

\* r.get('link', '')
GetLink(r) == IF "link" \in DOMAIN r THEN r.link ELSE <<>>

----------------------------------------------------------------------------
(* BrightDataWebSearchTool._run                                            *)

NumQueries == 4

\* The site restriction of the k-th search query.
QuerySite(k) == PlatformOrder[k]

\* num= parameter of every query: total_results // 4.
QueryNum(total) == total \div 4

\* One query: what the request does, and what it adds to all_results.
\* status_code is tested before response.json() is evaluated.
QueryResults(resp) ==
    IF resp.transport_error THEN <<>>
    ELSE IF resp.status_code # 200 THEN <<>>
    ELSE IF ~resp.json_ok THEN <<>>
    ELSE IF "organic" \in DOMAIN resp.body THEN resp.body.organic
    ELSE <<>>

QueryLog(resp) ==
    IF resp.transport_error THEN "search_error"
    ELSE IF resp.status_code # 200 THEN "no_results"
    ELSE IF ~resp.json_ok THEN "search_error"
    ELSE IF "organic" \in DOMAIN resp.body THEN "found"
    ELSE "no_results"

\* As SearchFrom, but an exception in one query ends the loop.
RECURSIVE SearchFromStopAtError(_, _, _)
SearchFromStopAtError(k, world, all_results) ==
    IF k > NumQueries THEN all_results
    ELSE IF QueryLog(world[k]) = "search_error" THEN all_results
    ELSE SearchFromStopAtError(k + 1, world, all_results \o QueryResults(world[k]))

RECURSIVE SearchFrom(_, _, _)
SearchFrom(k, world, all_results) ==
    IF k > NumQueries THEN all_results
    ELSE SearchFrom(k + 1, world, all_results \o QueryResults(world[k]))

\* As WebSearch, keeping only the first occurrence of every item.
WebSearchDedup(world) ==
    LET s    == SearchFrom(1, world, <<>>)
        keep == {i \in DOMAIN s : \A j \in 1..(i - 1) : s[j] # s[i]}
    IN  [k \in 1..Cardinality(keep) |->
            s[CHOOSE i \in keep : Cardinality({j \in keep : j < i}) = k - 1]]

WebSearch(world) == SearchFrom(1, world, <<>>)

QueriesIssued(total) ==
    [k \in 1..NumQueries |-> [site |-> QuerySite(k), num |-> QueryNum(total)]]

----------------------------------------------------------------------------
(* BrandMonitoringFlow.scrape_data: the bucketing loop.                    *)

EmptyBuckets == [p \in Platforms |-> <<>>]

\* As ClassifyItem, with the length test inside each condition of the chain:
\* an item whose first bucket is full goes on to the next test.
ClassifyItemSpill(buckets, r) ==
    LET url == LowerUrl(GetLink(r))
        room(p) == Len(buckets[p]) < BucketCap
        put(p) == [buckets EXCEPT ![p] = Append(@, r)]
    IN  IF Contains("linkedin.com", url) /\ room("linkedin") THEN put("linkedin")
        ELSE IF Contains("instagram.com", url) /\ room("instagram") THEN put("instagram")
        ELSE IF (Contains("youtube.com", url) \/ Contains("youtu.be", url)) /\ room("youtube")
             THEN put("youtube")
        ELSE IF (Contains("x.com", url) \/ Contains("twitter.com", url)) /\ room("x")
             THEN put("x")
        ELSE buckets

\* As ClassifyItem, with four independent `if` tests instead of if/elif.
ClassifyItemEveryMatch(buckets, r) ==
    LET url == LowerUrl(GetLink(r))
        put(b, p, hit) == IF hit /\ Len(b[p]) < BucketCap
                          THEN [b EXCEPT ![p] = Append(@, r)]
                          ELSE b
        b1 == put(buckets, "linkedin", Contains("linkedin.com", url))
        b2 == put(b1, "instagram", Contains("instagram.com", url))
        b3 == put(b2, "youtube", Contains("youtube.com", url) \/ Contains("youtu.be", url))
    IN  put(b3, "x", Contains("x.com", url) \/ Contains("twitter.com", url))

\* One iteration of `for r in self.state.search_response`.
ClassifyItem(buckets, r) ==
    LET url == LowerUrl(GetLink(r))
        put(p) == IF Len(buckets[p]) < BucketCap
                  THEN [buckets EXCEPT ![p] = Append(@, r)]
                  ELSE buckets
    IN  IF Contains("linkedin.com", url) THEN put("linkedin")
        ELSE IF Contains("instagram.com", url) THEN put("instagram")
        ELSE IF Contains("youtube.com", url) \/ Contains("youtu.be", url)
             THEN put("youtube")
        ELSE IF Contains("x.com", url) \/ Contains("twitter.com", url)
             THEN put("x")
        ELSE buckets

RECURSIVE ClassifyFrom(_, _, _)
ClassifyFrom(k, results, buckets) ==
    IF k > Len(results) THEN buckets
    ELSE ClassifyFrom(k + 1, results, ClassifyItem(buckets, results[k]))

Classify(results) == ClassifyFrom(1, results, EmptyBuckets)


----------------------------------------------------------------------------
(* Search results the provider can return.                                 *)

Item(t, url) == [title |-> t, link |-> url]

\* An organic entry without a 'link' key.
NoLinkItem == [title |-> "nolink"]

OrganicLinkedIn ==
    << Item("li_a", <<"linkedin.com">>),
       Item("li_b", <<"LinkedIn.com">>),
       Item("li_c", <<"linkedin.com", "x.com">>) >>

OrganicMixed ==
    << Item("ig_a", <<"instagram.com">>),
       Item("yt_li", <<"youtube.com", "linkedin.com">>),
       NoLinkItem >>

OrganicVideo ==
    << Item("yt_a", <<"YouTube.com">>),
       Item("yt_b", <<"youtu.be">>),
       Item("nf_a", <<"netflix.com">>) >>

OrganicX ==
    << Item("tw_a", <<"twitter.com">>),
       Item("x_a", <<"X.com">>),
       Item("web_a", <<"example.org">>) >>

\* A response to one search request.
SearchOk(organic) ==
    [transport_error |-> FALSE, status_code |-> 200, json_ok |-> TRUE,
     body |-> [organic |-> organic]]

SearchTransportError ==
    [transport_error |-> TRUE, status_code |-> 0, json_ok |-> FALSE,
     body |-> [error |-> "none"]]

SearchBadStatus ==
    [transport_error |-> FALSE, status_code |-> 500, json_ok |-> TRUE,
     body |-> [organic |-> OrganicLinkedIn]]

SearchBadJson ==
    [transport_error |-> FALSE, status_code |-> 200, json_ok |-> FALSE,
     body |-> [error |-> "none"]]

SearchNoOrganic ==
    [transport_error |-> FALSE, status_code |-> 200, json_ok |-> TRUE,
     body |-> [general |-> "info"]]

SearchFailures ==
    {SearchTransportError, SearchBadStatus, SearchBadJson, SearchNoOrganic}

SearchResponses ==
    SearchFailures \cup
    {SearchOk(o) : o \in {<<>>, OrganicLinkedIn, OrganicMixed, OrganicVideo, OrganicX}}

\* Every way the four queries of one search can be answered.
SearchWorlds == [1..NumQueries -> SearchResponses]

\* The searches used when the whole flow is explored.
FlowWorlds ==
    { [k \in 1..NumQueries |-> SearchTransportError],
      [k \in 1..NumQueries |->
          IF k = 1 THEN SearchOk(SubSeq(OrganicLinkedIn, 1, 2))
          ELSE IF k = 3 THEN SearchOk(SubSeq(OrganicVideo, 1, 1))
          ELSE SearchOk(<<>>)],
      [k \in 1..NumQueries |->
          IF k = 1 THEN SearchOk(SubSeq(OrganicLinkedIn, 1, 1))
          ELSE IF k = 2 THEN SearchOk(SubSeq(OrganicMixed, 1, 1))
          ELSE IF k = 4 THEN SearchOk(SubSeq(OrganicX, 1, 1))
          ELSE SearchNoOrganic],
      [k \in 1..NumQueries |->
          IF k = 4 THEN SearchOk(SubSeq(OrganicX, 3, 3)) ELSE SearchBadStatus] }

----------------------------------------------------------------------------
(* Raw records of the scraping provider and the field extraction of each   *)
(* platform task.  A raw record is a mapping from the keys it has to       *)
(* values; a normalized record has the platform's fixed key set.           *)

\* <<normalized key, raw key, default>> for every i.get(raw, default).
FieldTable(p) ==
    CASE p = "linkedin" ->
           { <<"headline", "headline", "No headline">>,
             <<"post_text", "post_text", "No post text available">>,
             <<"hashtags", "hashtags", "[]">>,
             <<"tagged_companies", "tagged_companies", "[]">>,
             <<"tagged_people", "tagged_people", "[]">>,
             <<"original_poster", "user_id", "Unknown user">> }
      [] p = "instagram" ->
           { <<"description", "description", "No description available">>,
             <<"likes", "likes", "0">>,
             <<"num_comments", "num_comments", "0">>,
             <<"is_paid_partnership", "is_paid_partnership", "False">>,
             <<"followers", "followers", "0">>,
             <<"original_poster", "user_posted", "Unknown user">> }
      [] p = "youtube" ->
           { <<"title", "title", "No Title">>,
             <<"description", "description", "No description available">>,
             <<"original_poster", "youtuber", "Unknown creator">>,
             <<"verified", "verified", "False">>,
             <<"views", "views", "0">>,
             <<"likes", "likes", "0">>,
             <<"hashtags", "hashtags", "[]">>,
             <<"transcript", "transcript", "No transcript available">> }
      [] p = "x" ->
           { <<"views", "views", "0">>,
             <<"likes", "likes", "0">>,
             <<"replies", "replies", "0">>,
             <<"reposts", "reposts", "0">>,
             <<"hashtags", "hashtags", "[]">>,
             <<"quotes", "quotes", "0">>,
             <<"bookmarks", "bookmarks", "0">>,
             <<"description", "description", "No description available">>,
             <<"tagged_users", "tagged_users", "[]">>,
             <<"original_poster", "user_posted", "Unknown user">> }

NormalizedKeys(p) == {"url"} \cup {f[1] : f \in FieldTable(p)}

RawKeys(p) == {"url"} \cup {f[2] : f \in FieldTable(p)}

\* i["url"] raises KeyError when the record has no 'url'.
ExtractRaises(i) == "url" \notin DOMAIN i

\* As Extract, but a key the raw record lacks is left out.
ExtractDropsAbsent(p, i) ==
    LET present == {k \in NormalizedKeys(p) :
                       \/ k = "url"
                       \/ \E f \in FieldTable(p) : f[1] = k /\ f[2] \in DOMAIN i}
    IN  [k \in present |->
            IF k = "url" THEN i["url"]
            ELSE LET f == CHOOSE f \in FieldTable(p) : f[1] = k IN i[f[2]]]

\* The dict appended to <platform>_filtered_scrape_response for raw record i.
Extract(p, i) ==
    [k \in NormalizedKeys(p) |->
        IF k = "url" THEN i["url"]
        ELSE LET f == CHOOSE f \in FieldTable(p) : f[1] = k
             IN  IF f[2] \in DOMAIN i THEN i[f[2]] ELSE f[3]]

\* Records the provider can return for a platform.
FullRecord(p) == [k \in RawKeys(p) |-> IF k = "url" THEN "u1" ELSE "raw"]

UrlOnlyRecord == [url |-> "u2"]

\* An error record (include_errors): no top-level 'url'.
ErrorRecord == [error |-> "dead_page", likes |-> "7"]

SnapshotBodies(p) ==
    { <<>>,
      <<FullRecord(p)>>,
      <<FullRecord(p), UrlOnlyRecord>>,
      <<ErrorRecord>>,
      <<FullRecord(p), ErrorRecord>> }

----------------------------------------------------------------------------
(* scrape_urls: the trigger / poll / snapshot protocol.  `sc` is the frame *)
(* of the call in progress.  The code reads the clock only as              *)
(* time.time() - start_time, so the frame keeps that difference: `elapsed` *)
(* grows by time.sleep(10) and by the time the status request after it     *)
(* takes.  The time taken by the trigger, the first poll (start_time is    *)
(* read after it) and the snapshot request is read by nothing.             *)

Timeout == 60

PollInterval == 10

\* Longest time one status request takes.
MaxLatency == 1

Latencies == 0..MaxLatency

\* `history` is the requests made so far, each with the response it got.
IdleFrame ==
    [pc |-> "idle", owner |-> "none", input_urls |-> <<>>, elapsed |-> 0,
     history |-> <<>>, log |-> {}, result |-> <<>>]

\* `return value` after printing `msg`.
ScReturn(f, value, msg) ==
    [f EXCEPT !.pc = "returned", !.result = value, !.log = @ \cup {msg}]

\* An exception raised inside the outer try block.
ScRaise(f) == [f EXCEPT !.pc = "raised"]

\* As OuterExcept, without the outer try block.
OuterExceptMissing(f) == f

\* Lines 168-170: except Exception: print, return [].
OuterExcept(f) ==
    IF f.pc = "raised" THEN ScReturn(f, <<>>, "scraping_error") ELSE f

\* As ScEnter, without the test of the empty list.
ScEnterNoShortCircuit(input_urls, p) ==
    [IdleFrame EXCEPT !.owner = p, !.input_urls = input_urls, !.pc = "trigger"]

\* Lines 102-114: the call up to its first request.
ScEnter(input_urls, p) ==
    LET f == [IdleFrame EXCEPT !.owner = p, !.input_urls = input_urls]
    IN  IF input_urls = <<>> THEN ScReturn(f, <<>>, "no_urls_to_scrape")
        ELSE [f EXCEPT !.pc = "trigger"]

\* A response to an HTTP request of scrape_urls.
HttpResponse(code, json_ok, body) ==
    [transport_error |-> FALSE, status_code |-> code, json_ok |-> json_ok,
     body |-> body]

HttpTransportError ==
    [transport_error |-> TRUE, status_code |-> 0, json_ok |-> FALSE,
     body |-> [error |-> "none"]]

TriggerResponses ==
    { HttpTransportError,
      HttpResponse(500, TRUE, [error |-> "server"]),
      HttpResponse(201, TRUE, [snapshot_id |-> "s1"]),
      HttpResponse(202, TRUE, [snapshot_id |-> "s1"]),
      HttpResponse(200, FALSE, [error |-> "none"]),
      HttpResponse(200, TRUE, [error |-> "no_id"]),
      HttpResponse(200, TRUE, [snapshot_id |-> "s1"]) }

StatusResponses ==
    { HttpTransportError,
      HttpResponse(200, FALSE, [error |-> "none"]),
      HttpResponse(200, TRUE, [progress |-> "50"]),
      HttpResponse(200, TRUE, [status |-> "running", progress |-> "50"]),
      HttpResponse(200, TRUE, [status |-> "ready", progress |-> "100"]) }

SnapshotResponses(p) ==
    { [HttpTransportError EXCEPT !.body = <<>>],
      HttpResponse(200, FALSE, <<>>) } \cup
    { HttpResponse(200, TRUE, b) : b \in SnapshotBodies(p) }

Sent(f, req, resp) == [f EXCEPT !.history = Append(@, [req |-> req, resp |-> resp])]

\* As AfterTrigger, but every 2xx status counts as success.
AfterTriggerAny2xx(f, resp) ==
    LET g == Sent(f, "trigger", resp)
    IN  IF resp.transport_error THEN ScRaise(g)
        ELSE IF resp.status_code \notin 200..299 THEN ScReturn(g, <<>>, "api_error")
        ELSE IF ~resp.json_ok THEN ScReturn(g, <<>>, "invalid_json")
        ELSE IF "snapshot_id" \notin DOMAIN resp.body
             THEN ScReturn(g, <<>>, "no_snapshot_id")
        ELSE [g EXCEPT !.pc = "first_poll"]

\* Lines 118-136: the trigger request, answered by resp.
AfterTrigger(f, resp) ==
    LET g == Sent(f, "trigger", resp)
    IN  IF resp.transport_error THEN ScRaise(g)
        ELSE IF resp.status_code # 200 THEN ScReturn(g, <<>>, "api_error")
        ELSE IF ~resp.json_ok THEN ScReturn(g, <<>>, "invalid_json")
        ELSE IF "snapshot_id" \notin DOMAIN resp.body
             THEN ScReturn(g, <<>>, "no_snapshot_id")
        ELSE [g EXCEPT !.pc = "first_poll"]

\* As WhileTest, but the timeout is tested before the status.
WhileTestTimeoutFirst(g, resp) ==
    IF ~resp.json_ok THEN ScRaise(g)
    ELSE IF "status" \notin DOMAIN resp.body THEN ScRaise(g)
    ELSE IF g.elapsed > Timeout THEN ScReturn(g, <<>>, "timeout")
    ELSE IF resp.body.status = "ready"
         THEN [g EXCEPT !.pc = "snapshot", !.log = @ \cup {"completed"}]
    ELSE [g EXCEPT !.pc = "sleep"]

\* As WhileTest, with `>=` in the timeout test.
WhileTestNonStrict(g, resp) ==
    IF ~resp.json_ok THEN ScRaise(g)
    ELSE IF "status" \notin DOMAIN resp.body THEN ScRaise(g)
    ELSE IF resp.body.status = "ready"
         THEN [g EXCEPT !.pc = "snapshot", !.log = @ \cup {"completed"}]
    ELSE IF g.elapsed >= Timeout THEN ScReturn(g, <<>>, "timeout")
    ELSE [g EXCEPT !.pc = "sleep"]

\* As WhileTest, but the snapshot is fetched when the loop times out.
WhileTestFetchOnTimeout(g, resp) ==
    IF ~resp.json_ok THEN ScRaise(g)
    ELSE IF "status" \notin DOMAIN resp.body THEN ScRaise(g)
    ELSE IF resp.body.status = "ready"
         THEN [g EXCEPT !.pc = "snapshot", !.log = @ \cup {"completed"}]
    ELSE IF g.elapsed > Timeout
         THEN [g EXCEPT !.pc = "snapshot", !.log = @ \cup {"timeout"}]
    ELSE [g EXCEPT !.pc = "sleep"]

\* As WhileTest, without the timeout test.
WhileTestNoTimeout(g, resp) ==
    IF ~resp.json_ok THEN ScRaise(g)
    ELSE IF "status" \notin DOMAIN resp.body THEN ScRaise(g)
    ELSE IF resp.body.status = "ready"
         THEN [g EXCEPT !.pc = "snapshot", !.log = @ \cup {"completed"}]
    ELSE [g EXCEPT !.pc = "sleep"]

\* Lines 146-149: status_response.json()['status'] != "ready", then the
\* timeout test, on the frame g that already holds the time of the poll.
WhileTest(g, resp) ==
    IF ~resp.json_ok THEN ScRaise(g)
    ELSE IF "status" \notin DOMAIN resp.body THEN ScRaise(g)
    ELSE IF resp.body.status = "ready"
         THEN [g EXCEPT !.pc = "snapshot", !.log = @ \cup {"completed"}]
    ELSE IF g.elapsed > Timeout THEN ScReturn(g, <<>>, "timeout")
    ELSE [g EXCEPT !.pc = "sleep"]

\* Lines 139-149: the first status request, start_time, first loop test.
AfterFirstPoll(f, resp) ==
    LET g == [Sent(f, "poll", resp) EXCEPT !.elapsed = 0]
    IN  IF resp.transport_error THEN ScRaise(g) ELSE WhileTest(g, resp)

\* Lines 151-153 and 146-149: sleep, poll again (the request takes d time
\* units), print the progress, loop test.
AfterSleepPoll(f, resp, d) ==
    LET g == [Sent(f, "poll", resp) EXCEPT !.elapsed = @ + PollInterval + d]
    IN  IF resp.transport_error THEN ScRaise(g) ELSE WhileTest(g, resp)

\* Lines 155-166: the snapshot request and its body.
AfterSnapshot(f, resp) ==
    LET g == Sent(f, "snapshot", resp)
    IN  IF resp.transport_error THEN ScRaise(g)
        ELSE IF ~resp.json_ok THEN ScReturn(g, <<>>, "invalid_results")
        ELSE ScReturn(g, resp.body, "done")

NoCalls == [trigger |-> 0, poll |-> FALSE, snapshot |-> 0, kickoff |-> 0]

NotServed == [scrape_called |-> FALSE, scrape |-> <<>>, kickoff |-> "not_called"]

ScTrigger ==
    /\ sc.pc = "trigger"
    /\ \E resp \in TriggerResponses : sc' = OuterExcept(AfterTrigger(sc, resp))
    /\ calls' = [calls EXCEPT ![sc.owner].trigger = @ + 1]
    /\ UNCHANGED <<chromaVars, entryVars, configVars, searchVars, resultVars, fpc, task, log, served>>

ScFirstPoll ==
    /\ sc.pc = "first_poll"
    /\ \E resp \in StatusResponses : sc' = OuterExcept(AfterFirstPoll(sc, resp))
    /\ calls' = [calls EXCEPT ![sc.owner].poll = TRUE]
    /\ UNCHANGED <<chromaVars, entryVars, configVars, searchVars, resultVars, fpc, task, log, served>>

ScSleepPoll ==
    /\ sc.pc = "sleep"
    /\ \E resp \in StatusResponses, d \in Latencies :
          sc' = OuterExcept(AfterSleepPoll(sc, resp, d))
    /\ calls' = [calls EXCEPT ![sc.owner].poll = TRUE]
    /\ UNCHANGED <<chromaVars, entryVars, configVars, searchVars, resultVars, fpc, task, log, served>>

ScSnapshot ==
    /\ sc.pc = "snapshot"
    /\ \E resp \in SnapshotResponses(sc.owner) : sc' = OuterExcept(AfterSnapshot(sc, resp))
    /\ calls' = [calls EXCEPT ![sc.owner].snapshot = @ + 1]
    /\ UNCHANGED <<chromaVars, entryVars, configVars, searchVars, resultVars, fpc, task, log, served>>

ScrapeUrlsStep == ScTrigger \/ ScFirstPoll \/ ScSleepPoll \/ ScSnapshot

----------------------------------------------------------------------------
(* Values of <platform>_crew_response.                                     *)

NoneValue == [type |-> "None"]

\* LinkedInReport / InstagramReport / YoutubeReport / XReport.
Report == [type |-> "Report", content |-> <<"post">>]

\* What crew().kickoff() returns: its .pydantic is a report, or None when
\* the writer's output could not be converted to the report schema.
CrewOutput(pydantic) == [type |-> "CrewOutput", pydantic |-> pydantic]

\* Python truth value of a crew response.
Truthy(v) == v.type # "None"

\* crew_response.pydantic.content raises AttributeError.
ContentRaises(v) == v.pydantic.type = "None"

KickoffOutcomes == {"raises", "returns_none", "no_pydantic", "report"}

\* As GetLlmRaises, if get_llm never looked at the key.
GetLlmIgnoresKey == FALSE

\* get_llm raises ValueError: the provider is groq and GROQ_API_KEY is not
\* in the environment.  LLM_PROVIDER is what scrape_data copied from the
\* state, and `credentials` are the keys the environment holds.
GetLlmRaises == llm_provider = "groq" /\ "groq_api_key" \notin credentials

\* The crews whose agent methods call get_llm when the crew is built, inside
\* the try block around kickoff.
RuntimeLlmCrews == {"linkedin", "instagram", "youtube"}

\* XCrew is not among the sources; the specification says that the provider
\* is read at call time for the four platforms alike.
XCrewRuntimeLlm == {"x"}

\* What <Platform>Crew().crew().kickoff() can do for platform p.
OutcomesOf(p) ==
    IF GetLlmRaises /\ p \in RuntimeLlmCrews \cup XCrewRuntimeLlm
    THEN {"raises"}
    ELSE KickoffOutcomes

----------------------------------------------------------------------------
(* The callers of the flow: start_analysis of the Streamlit app, and the   *)
(* command line entry point kickoff() of main.py.                          *)

Credentials ==
    {"groq_api_key", "bright_data_username", "bright_data_password",
     "bright_data_api_key"}

BrightDataCredentials == Credentials \ {"groq_api_key"}

\* Most runs one session starts.
MaxRuns == 2

\* What the results section of the page shows: the platforms whose report
\* was rendered, whether the raw search results section was reached and the
\* links it lists, the closing warning, and the error of the except branch.
NotDisplayed ==
    [rendered |-> FALSE, error |-> FALSE, reports |-> {}, raw_section |-> FALSE,
     raw |-> [p \in Platforms |-> <<>>], warning |-> FALSE]

\* st.session_state.response after a run: the state object of the flow, of
\* which the app reads the buckets and the crew responses.
StoredState(buckets, crew) == [type |-> "State", buckets |-> buckets, crew |-> crew]

\* `pc` is the position of the caller, `error` and `warning` what st.error
\* and st.warning displayed in start_analysis, `response` is
\* st.session_state.response, `runs` counts the calls of start_analysis.
AppAt(entry, pc) ==
    [entry |-> entry, pc |-> pc, error |-> "none", warning |-> FALSE,
     has_results |-> FALSE, response |-> NoneValue, display |-> NotDisplayed,
     runs |-> 0]

\* item.get('link', '#')
DisplayLink(item) == IF "link" \in DOMAIN item THEN item.link ELSE <<"#">>

\* The results section for a stored state, lines 342-454: the four report
\* blocks in the order LinkedIn, Instagram, YouTube, X, then the raw search
\* results, all inside one try whose except branch shows an error.
Display(response) ==
    LET shown(p)  == Truthy(response.crew[p])
        raises(p) == shown(p) /\ ContentRaises(response.crew[p])
        before(p) == \A q \in Platforms :
                        PlatformIndex(q) < PlatformIndex(p) => ~raises(q)
    IN  IF \E p \in Platforms : raises(p)
        THEN [NotDisplayed EXCEPT
                 !.rendered = TRUE, !.error = TRUE,
                 !.reports = {p \in Platforms : shown(p) /\ ~raises(p) /\ before(p)}]
        ELSE [rendered |-> TRUE, error |-> FALSE,
              reports |-> {p \in Platforms : shown(p)},
              raw_section |-> TRUE,
              raw |-> [p \in Platforms |->
                         [k \in DOMAIN response.buckets[p] |->
                             DisplayLink(response.buckets[p][k])]],
              warning |-> ~\E p \in Platforms : shown(p)]

\* As HasResults, with `and` between the four tests.
HasResultsAll(responses) == \A p \in Platforms : Truthy(responses[p])

\* Lines 210-217 of the app: the truth value of any of the four responses.
HasResults(responses) == \E p \in Platforms : Truthy(responses[p])

----------------------------------------------------------------------------
(* The flow.                                                               *)

TaskDone(p) == task[p] \in {"returned", "raised"}

\* As Scheduled, if the coroutines yielded to the event loop while they
\* wait: any task that has not ended may take the next step.
ScheduledInterleaved(p) == fpc = "gather"

\* As Scheduled, but a task that ended with an exception stops the later ones.
ScheduledUnlessRaised(p) ==
    /\ fpc = "gather"
    /\ \A q \in Platforms :
          PlatformIndex(q) < PlatformIndex(p) => task[q] = "returned"

\* The event loop runs the tasks in creation order and a task never awaits,
\* so a task takes a step only when every task created before it has ended.
Scheduled(p) ==
    /\ fpc = "gather"
    /\ \A q \in Platforms : PlatformIndex(q) < PlatformIndex(p) => TaskDone(q)

InitWith(limits) ==
    /\ total_results \in limits
    /\ brand_name = "Acme"
    /\ llm_provider = "groq"
    /\ search_response = <<>>
    /\ queries = <<>>
    /\ search_served = <<>>
    /\ platform_search_response = EmptyBuckets
    /\ scrape_response = [p \in Platforms |-> <<>>]
    /\ filtered_scrape_response = [p \in Platforms |-> <<>>]
    /\ crew_response = [p \in Platforms |-> NoneValue]
    /\ fpc = "constructed"
    /\ task = [p \in Platforms |-> "none"]
    /\ log = [p \in Platforms |-> {}]
    /\ calls = [p \in Platforms |-> NoCalls]
    /\ served = [p \in Platforms |-> NotServed]
    /\ sc = IdleFrame
    /\ credentials = Credentials
    /\ app = [AppAt("app", "kickoff") EXCEPT !.runs = 1]
    /\ NoClient

\* The flow is explored with the smallest and the largest limit.
Init == InitWith({1, MaxTotalResults})

\* scrape_data: the search, then the bucketing unless nothing was found.
ScrapeData(world) ==
    /\ fpc = "constructed"
    /\ search_response' = WebSearch(world)
    /\ queries' = QueriesIssued(total_results)
    /\ search_served' = world
    /\ platform_search_response' =
          IF search_response' = <<>> THEN platform_search_response
          ELSE Classify(search_response')
    /\ fpc' = "scrape_data_done"
    /\ UNCHANGED <<chromaVars, entryVars, configVars, resultVars, task, log, calls, served, sc>>

\* As CreateTasks, but the method returns when the four buckets are empty.
CreateTasksUnlessEmpty ==
    /\ fpc = "scrape_data_done"
    /\ IF \A p \in Platforms : platform_search_response[p] = <<>>
       THEN task' = task /\ fpc' = "returned"
       ELSE task' = [p \in Platforms |-> "created"] /\ fpc' = "gather"
    /\ UNCHANGED <<chromaVars, entryVars, configVars, searchVars, resultVars, log, calls, served, sc>>

\* scrape_data_and_analyse up to `await asyncio.gather`.
CreateTasks ==
    /\ fpc = "scrape_data_done"
    /\ task' = [p \in Platforms |-> "created"]
    /\ fpc' = "gather"
    /\ UNCHANGED <<chromaVars, entryVars, configVars, searchVars, resultVars, log, calls, served, sc>>

\* As TaskStart, without the test of the bucket.
TaskStartNoCheck(p) ==
    /\ Scheduled(p)
    /\ task[p] = "created"
    /\ sc' = ScEnter([k \in DOMAIN platform_search_response[p] |->
                         platform_search_response[p][k].link], p)
    /\ task' = [task EXCEPT ![p] = "scraping"]
    /\ UNCHANGED <<chromaVars, entryVars, configVars, searchVars, resultVars, fpc, log, calls, served>>

\* <platform>_analysis from its first line to the first request of scrape_urls.
TaskStart(p) ==
    /\ Scheduled(p)
    /\ task[p] = "created"
    /\ IF platform_search_response[p] = <<>>
       THEN /\ log' = [log EXCEPT ![p] = @ \cup {"no_urls"}]
            /\ task' = [task EXCEPT ![p] = "returned"]
            /\ sc' = sc
       ELSE /\ sc' = ScEnter([k \in DOMAIN platform_search_response[p] |->
                                 platform_search_response[p][k].link], p)
            /\ task' = [task EXCEPT ![p] = "scraping"]
            /\ log' = log
    /\ UNCHANGED <<chromaVars, entryVars, configVars, searchVars, resultVars, fpc, calls, served>>

\* As TaskAfterScrape, but an empty scrape result makes the task start over.
TaskAfterScrapeRetry(p) ==
    /\ Scheduled(p)
    /\ task[p] = "scraping"
    /\ sc.pc \in {"returned", "raised"}
    /\ sc.owner = p
    /\ sc' = IdleFrame
    /\ served' = [served EXCEPT ![p].scrape_called = TRUE, ![p].scrape = sc.result]
    /\ IF sc.pc = "raised"
       THEN /\ scrape_response' = scrape_response
            /\ log' = [log EXCEPT ![p] = @ \cup {"scraping_error"}]
            /\ task' = [task EXCEPT ![p] = "returned"]
       ELSE /\ scrape_response' = [scrape_response EXCEPT ![p] = sc.result]
            /\ IF sc.result = <<>>
               THEN /\ log' = [log EXCEPT ![p] = @ \cup {"no_content"}]
                    /\ task' = [task EXCEPT ![p] = "created"]
               ELSE /\ log' = log
                    /\ task' = [task EXCEPT ![p] = "filter"]
    /\ UNCHANGED <<chromaVars, entryVars, configVars, searchVars, filtered_scrape_response,
                   crew_response, fpc, calls>>

\* As TaskAfterScrape, with no emptiness test before the analysis: an empty
\* scrape result goes on to the crew.
TaskAfterScrapeNoEmptyCheck(p) ==
    /\ Scheduled(p)
    /\ task[p] = "scraping"
    /\ sc.pc \in {"returned", "raised"}
    /\ sc.owner = p
    /\ sc' = IdleFrame
    /\ served' = [served EXCEPT ![p].scrape_called = TRUE, ![p].scrape = sc.result]
    /\ IF sc.pc = "raised"
       THEN /\ scrape_response' = scrape_response
            /\ log' = [log EXCEPT ![p] = @ \cup {"scraping_error"}]
            /\ task' = [task EXCEPT ![p] = "returned"]
       ELSE /\ scrape_response' = [scrape_response EXCEPT ![p] = sc.result]
            /\ log' = log
            /\ task' = [task EXCEPT ![p] = IF sc.result = <<>> THEN "analyse" ELSE "filter"]
    /\ UNCHANGED <<chromaVars, entryVars, configVars, searchVars, filtered_scrape_response,
                   crew_response, fpc, calls>>

\* scrape_urls has ended: the assignment and the emptiness test, or the
\* except branch of the task when the call raised.
TaskAfterScrape(p) ==
    /\ Scheduled(p)
    /\ task[p] = "scraping"
    /\ sc.pc \in {"returned", "raised"}
    /\ sc.owner = p
    /\ sc' = IdleFrame
    /\ served' = [served EXCEPT ![p].scrape_called = TRUE, ![p].scrape = sc.result]
    /\ IF sc.pc = "raised"
       THEN /\ scrape_response' = scrape_response
            /\ log' = [log EXCEPT ![p] = @ \cup {"scraping_error"}]
            /\ task' = [task EXCEPT ![p] = "returned"]
       ELSE /\ scrape_response' = [scrape_response EXCEPT ![p] = sc.result]
            /\ IF sc.result = <<>>
               THEN /\ log' = [log EXCEPT ![p] = @ \cup {"no_content"}]
                    /\ task' = [task EXCEPT ![p] = "returned"]
               ELSE /\ log' = log
                    /\ task' = [task EXCEPT ![p] = "filter"]
    /\ UNCHANGED <<chromaVars, entryVars, configVars, searchVars, filtered_scrape_response,
                   crew_response, fpc, calls>>

\* As TaskFilter, but a record that fails takes back the records appended
\* before it.
TaskFilterRollback(p) ==
    /\ Scheduled(p)
    /\ task[p] = "filter"
    /\ LET k == Len(filtered_scrape_response[p]) + 1
           i == scrape_response[p][k]
       IN  IF ExtractRaises(i)
           THEN /\ task' = [task EXCEPT ![p] = "raised"]
                /\ filtered_scrape_response' =
                      [filtered_scrape_response EXCEPT ![p] = <<>>]
                /\ log' = log
           ELSE /\ filtered_scrape_response' =
                      [filtered_scrape_response EXCEPT ![p] = Append(@, Extract(p, i))]
                /\ IF k < Len(scrape_response[p])
                   THEN UNCHANGED <<task, log>>
                   ELSE IF filtered_scrape_response'[p] = <<>>
                        THEN /\ log' = [log EXCEPT ![p] = @ \cup {"nothing_to_analyze"}]
                             /\ task' = [task EXCEPT ![p] = "returned"]
                        ELSE /\ log' = log
                             /\ task' = [task EXCEPT ![p] = "analyse"]
    /\ UNCHANGED <<chromaVars, entryVars, configVars, searchVars, scrape_response, crew_response,
                   fpc, calls, served, sc>>

\* As TaskFilter, but each iteration assigns the list instead of appending.
TaskFilterAssign(p) ==
    /\ Scheduled(p)
    /\ task[p] = "filter"
    /\ LET k == Len(filtered_scrape_response[p]) + 1
           i == scrape_response[p][k]
       IN  IF ExtractRaises(i)
           THEN /\ task' = [task EXCEPT ![p] = "raised"]
                /\ UNCHANGED <<filtered_scrape_response, log>>
           ELSE /\ filtered_scrape_response' =
                      [filtered_scrape_response EXCEPT ![p] = <<Extract(p, i)>>]
                /\ log' = log
                /\ task' = IF k < Len(scrape_response[p]) THEN task
                           ELSE [task EXCEPT ![p] = "analyse"]
    /\ UNCHANGED <<chromaVars, entryVars, configVars, searchVars, scrape_response, crew_response,
                   fpc, calls, served, sc>>

\* One iteration of the filter loop; after the last one, the emptiness test.
\* A KeyError leaves the coroutine: no try encloses the loop.
TaskFilter(p) ==
    /\ Scheduled(p)
    /\ task[p] = "filter"
    /\ LET k == Len(filtered_scrape_response[p]) + 1
           i == scrape_response[p][k]
       IN  IF ExtractRaises(i)
           THEN /\ task' = [task EXCEPT ![p] = "raised"]
                /\ UNCHANGED <<filtered_scrape_response, log>>
           ELSE /\ filtered_scrape_response' =
                      [filtered_scrape_response EXCEPT ![p] = Append(@, Extract(p, i))]
                /\ IF k < Len(scrape_response[p])
                   THEN UNCHANGED <<task, log>>
                   ELSE IF filtered_scrape_response'[p] = <<>>
                        THEN /\ log' = [log EXCEPT ![p] = @ \cup {"nothing_to_analyze"}]
                             /\ task' = [task EXCEPT ![p] = "returned"]
                        ELSE /\ log' = log
                             /\ task' = [task EXCEPT ![p] = "analyse"]
    /\ UNCHANGED <<chromaVars, entryVars, configVars, searchVars, scrape_response, crew_response,
                   fpc, calls, served, sc>>

\* As TaskKickoff, but every task assigns LinkedIn's crew response.
TaskKickoffCopyPaste(p, outcome) ==
    /\ Scheduled(p)
    /\ task[p] = "analyse"
    /\ outcome \in OutcomesOf(p)
    /\ calls' = [calls EXCEPT ![p].kickoff = @ + 1]
    /\ served' = [served EXCEPT ![p].kickoff = outcome]
    /\ crew_response' =
          CASE outcome = "raises"       -> crew_response
            [] outcome = "returns_none" -> [crew_response EXCEPT !["linkedin"] = NoneValue]
            [] outcome = "no_pydantic"  -> [crew_response EXCEPT !["linkedin"] = CrewOutput(NoneValue)]
            [] outcome = "report"       -> [crew_response EXCEPT !["linkedin"] = CrewOutput(Report)]
    /\ log' = [log EXCEPT ![p] = @ \cup {"analysis_complete"}]
    /\ task' = [task EXCEPT ![p] = "returned"]
    /\ UNCHANGED <<chromaVars, entryVars, configVars, searchVars, scrape_response,
                   filtered_scrape_response, fpc, sc>>

\* The try block around crew().kickoff().
TaskKickoff(p, outcome) ==
    /\ Scheduled(p)
    /\ task[p] = "analyse"
    /\ outcome \in OutcomesOf(p)
    /\ calls' = [calls EXCEPT ![p].kickoff = @ + 1]
    /\ served' = [served EXCEPT ![p].kickoff = outcome]
    /\ crew_response' =
          CASE outcome = "raises"       -> crew_response
            [] outcome = "returns_none" -> [crew_response EXCEPT ![p] = NoneValue]
            [] outcome = "no_pydantic"  -> [crew_response EXCEPT ![p] = CrewOutput(NoneValue)]
            [] outcome = "report"       -> [crew_response EXCEPT ![p] = CrewOutput(Report)]
    /\ log' = [log EXCEPT ![p] = @ \cup
                 { IF outcome = "raises" THEN "analysis_error"
                   ELSE IF ~Truthy(crew_response'[p]) THEN "no_results"
                   ELSE IF ContentRaises(crew_response'[p]) THEN "analysis_error"
                   ELSE "analysis_complete" }]
    /\ task' = [task EXCEPT ![p] = "returned"]
    /\ UNCHANGED <<chromaVars, entryVars, configVars, searchVars, scrape_response,
                   filtered_scrape_response, fpc, sc>>

\* As PrintingRaises, if the four print blocks had no `if` around them.
PrintingRaisesOnNone ==
    \E p \in Platforms : ~Truthy(crew_response[p]) \/ ContentRaises(crew_response[p])

\* Lines 408-440 raise when a truthy response has no .pydantic.
PrintingRaises ==
    \E p \in Platforms : Truthy(crew_response[p]) /\ ContentRaises(crew_response[p])

\* As GatherAndPrint, but gather returns as soon as one task has raised.
GatherFirstException ==
    /\ fpc = "gather"
    /\ \/ \A p \in Platforms : TaskDone(p)
       \/ \E p \in Platforms : task[p] = "raised"
    /\ fpc' = IF PrintingRaises THEN "raised" ELSE "returned"
    /\ UNCHANGED <<chromaVars, entryVars, configVars, searchVars, resultVars, task, log, calls, served, sc>>

\* gather returns once the four tasks have ended; then the reports are printed.
GatherAndPrint ==
    /\ fpc = "gather"
    /\ \A p \in Platforms : TaskDone(p)
    /\ fpc' = IF PrintingRaises THEN "raised" ELSE "returned"
    /\ UNCHANGED <<chromaVars, entryVars, configVars, searchVars, resultVars, task, log, calls, served, sc>>

\* As NewFlow, if the list defaults of the state class were shared by its
\* instances: the lists filled by append keep what an earlier run put there.
NewFlowSharedDefaults ==
    /\ search_response' = <<>>
    /\ queries' = <<>>
    /\ search_served' = <<>>
    /\ platform_search_response' = platform_search_response
    /\ scrape_response' = [p \in Platforms |-> <<>>]
    /\ filtered_scrape_response' = filtered_scrape_response
    /\ crew_response' = [p \in Platforms |-> NoneValue]
    /\ task' = [p \in Platforms |-> "none"]
    /\ log' = [p \in Platforms |-> {}]
    /\ calls' = [p \in Platforms |-> NoCalls]
    /\ served' = [p \in Platforms |-> NotServed]
    /\ sc' = IdleFrame

\* BrandMonitoringFlow(): a new flow with a new BrandMonitoringState, every
\* field at its default (pydantic copies the list defaults for each instance).
NewFlow ==
    /\ search_response' = <<>>
    /\ queries' = <<>>
    /\ search_served' = <<>>
    /\ platform_search_response' = EmptyBuckets
    /\ scrape_response' = [p \in Platforms |-> <<>>]
    /\ filtered_scrape_response' = [p \in Platforms |-> <<>>]
    /\ crew_response' = [p \in Platforms |-> NoneValue]
    /\ task' = [p \in Platforms |-> "none"]
    /\ log' = [p \in Platforms |-> {}]
    /\ calls' = [p \in Platforms |-> NoCalls]
    /\ served' = [p \in Platforms |-> NotServed]
    /\ sc' = IdleFrame

\* What a call of start_analysis starts from: the session keeps the response.
AppCalled ==
    [AppAt("app", "start") EXCEPT !.response = app.response, !.runs = app.runs + 1]

\* start_analysis, lines 146-196: the validation of the keys, then a new flow
\* is constructed and its state filled from the session (n is the value of
\* the number input).
StartAnalysis(n) ==
    /\ app.entry = "app"
    /\ app.pc \in {"start", "done"}
    /\ app.runs < MaxRuns
    /\ IF "groq_api_key" \notin credentials
       THEN /\ app' = [AppCalled EXCEPT !.pc = "done", !.error = "groq_key_required"]
            /\ UNCHANGED <<configVars, searchVars, resultVars, fpc, task, log,
                           calls, served, sc>>
       ELSE IF ~(BrightDataCredentials \subseteq credentials)
       THEN /\ app' = [AppCalled EXCEPT !.pc = "done", !.error = "bright_data_required"]
            /\ UNCHANGED <<configVars, searchVars, resultVars, fpc, task, log,
                           calls, served, sc>>
       ELSE /\ app' = [AppCalled EXCEPT !.pc = "kickoff"]
            /\ NewFlow
            /\ brand_name' = "Acme"
            /\ total_results' = n
            /\ llm_provider' = "groq"
            /\ fpc' = "constructed"
    /\ UNCHANGED <<chromaVars, credentials>>

\* kickoff() of main.py: the flow is constructed with the defaults of
\* BrandMonitoringState and started; no credential is read before the search.
CliKickoff ==
    /\ app.entry = "cli"
    /\ app.pc = "start"
    /\ app' = [app EXCEPT !.pc = "kickoff", !.runs = @ + 1]
    /\ fpc' = "constructed"
    /\ UNCHANGED <<chromaVars, credentials, configVars, searchVars, resultVars, task, log,
                   calls, served, sc>>

\* start_analysis, lines 197-227: flow.kickoff() has returned or raised.  An
\* exception of scrape_data_and_analyse reaches the app or not according to
\* the flow engine, which is not part of the sources: both are possible.
AppFinish(propagates) ==
    /\ app.entry = "app"
    /\ app.pc = "kickoff"
    /\ fpc \in {"returned", "raised"}
    /\ app' = IF fpc = "raised" /\ propagates
              THEN [app EXCEPT !.pc = "done", !.error = "exception"]
              ELSE [app EXCEPT !.pc = "done",
                               !.response = StoredState(platform_search_response,
                                                        crew_response),
                               !.has_results = HasResults(crew_response),
                               !.warning = ~HasResults(crew_response)]
    /\ UNCHANGED <<chromaVars, credentials, configVars, searchVars, resultVars, fpc, task,
                   log, calls, served, sc>>

\* The script run that follows the callback: the results section, shown
\* when st.session_state.response is set.
AppDisplay ==
    /\ app.entry = "app"
    /\ app.pc = "done"
    /\ Truthy(app.response)
    /\ ~app.display.rendered
    /\ app' = [app EXCEPT !.display = Display(app.response)]
    /\ UNCHANGED <<chromaVars, credentials, configVars, searchVars, resultVars, fpc, task,
                   log, calls, served, sc>>

\* reset_analysis: the Reset button.
ResetAnalysis ==
    /\ app.entry = "app"
    /\ app.pc = "done"
    /\ Truthy(app.response)
    /\ app' = [app EXCEPT !.response = NoneValue, !.display = NotDisplayed]
    /\ UNCHANGED <<chromaVars, credentials, configVars, searchVars, resultVars, fpc, task,
                   log, calls, served, sc>>

Next ==
    \/ \E world \in FlowWorlds : ScrapeData(world)
    \/ CreateTasks
    \/ \E p \in Platforms : TaskStart(p)
    \/ ScrapeUrlsStep
    \/ \E p \in Platforms : TaskAfterScrape(p)
    \/ \E p \in Platforms : TaskFilter(p)
    \/ \E p \in Platforms, outcome \in KickoffOutcomes : TaskKickoff(p, outcome)
    \/ GatherAndPrint
    \/ \E propagates \in BOOLEAN : AppFinish(propagates)
    \/ AppDisplay

Spec == Init /\ [][Next]_vars

----------------------------------------------------------------------------
(* The search and the bucketing alone, over every answer to the queries.   *)

InitSearch == InitWith(ResultLimits)

NextSearch == \E world \in SearchWorlds : ScrapeData(world)

SpecSearch == InitSearch /\ [][NextSearch]_vars

----------------------------------------------------------------------------
(* One direct call of scrape_urls.                                         *)

UrlLists == { <<>>, <<"u1">>, <<"u1", "u2">> }

ScCall(input_urls, p) ==
    /\ fpc = "constructed"
    /\ sc.pc = "idle"
    /\ sc' = ScEnter(input_urls, p)
    /\ UNCHANGED <<chromaVars, entryVars, configVars, searchVars, resultVars, fpc, task, log, calls, served>>

NextScrape ==
    \/ \E input_urls \in UrlLists, p \in Platforms : ScCall(input_urls, p)
    \/ ScrapeUrlsStep

SpecScrape == Init /\ [][NextScrape]_vars

----------------------------------------------------------------------------
(* The two entry points, over every set of credentials, up to the search.  *)

DefaultTotalResults == 5

\* The fields of a new BrandMonitoringState, and no flow started.
StateDefaults ==
    /\ total_results = DefaultTotalResults
    /\ brand_name = "Browserbase"
    /\ llm_provider = "ollama"
    /\ search_response = <<>>
    /\ queries = <<>>
    /\ search_served = <<>>
    /\ platform_search_response = EmptyBuckets
    /\ scrape_response = [p \in Platforms |-> <<>>]
    /\ filtered_scrape_response = [p \in Platforms |-> <<>>]
    /\ crew_response = [p \in Platforms |-> NoneValue]
    /\ fpc = "not_started"
    /\ task = [p \in Platforms |-> "none"]
    /\ log = [p \in Platforms |-> {}]
    /\ calls = [p \in Platforms |-> NoCalls]
    /\ served = [p \in Platforms |-> NotServed]
    /\ sc = IdleFrame

InitEntry ==
    /\ credentials \in SUBSET Credentials
    /\ app \in {AppAt(entry, "start") : entry \in {"app", "cli"}}
    /\ StateDefaults
    /\ NoClient

NextEntry ==
    \/ \E n \in ResultLimits : StartAnalysis(n)
    \/ CliKickoff
    \/ \E world \in FlowWorlds : ScrapeData(world)

SpecEntry == InitEntry /\ [][NextEntry]_vars

----------------------------------------------------------------------------
(* Several runs of one session of the app: Start Analysis, the flow, the   *)
(* results section, Reset, Start Analysis again.                           *)

\* The searches of these runs: nothing found, or one LinkedIn link.
RunWorlds ==
    { [k \in 1..NumQueries |-> SearchTransportError],
      [k \in 1..NumQueries |->
          IF k = 1 THEN SearchOk(SubSeq(OrganicLinkedIn, 1, 1)) ELSE SearchOk(<<>>)] }

InitRuns ==
    /\ InitEntry
    /\ credentials = Credentials
    /\ app.entry = "app"

NextRuns ==
    \/ \E n \in ResultLimits : StartAnalysis(n)
    \/ \E world \in RunWorlds : ScrapeData(world)
    \/ CreateTasks
    \/ \E p \in Platforms : TaskStart(p)
    \/ ScrapeUrlsStep
    \/ \E p \in Platforms : TaskAfterScrape(p)
    \/ \E p \in Platforms : TaskFilter(p)
    \/ \E p \in Platforms, outcome \in KickoffOutcomes : TaskKickoff(p, outcome)
    \/ GatherAndPrint
    \/ \E propagates \in BOOLEAN : AppFinish(propagates)
    \/ AppDisplay
    \/ ResetAnalysis

SpecRuns == InitRuns /\ [][NextRuns]_vars

----------------------------------------------------------------------------
(* The flow driven as main.py drives it, without the validation of the     *)
(* app, by a caller that chose the provider: with and without the Groq key *)
(* in the environment.                                                     *)

InitLlm ==
    /\ InitEntry
    /\ app = AppAt("cli", "start")
    /\ credentials \in {Credentials, BrightDataCredentials}

\* flow.state.llm_provider = <provider>; flow.kickoff()
DirectKickoff(provider) ==
    /\ app.entry = "cli"
    /\ app.pc = "start"
    /\ app' = [app EXCEPT !.pc = "kickoff", !.runs = @ + 1]
    /\ llm_provider' = provider
    /\ fpc' = "constructed"
    /\ UNCHANGED <<chromaVars, credentials, total_results, brand_name, searchVars, resultVars,
                   task, log, calls, served, sc>>

NextLlm ==
    \/ \E provider \in {"groq", "ollama"} : DirectKickoff(provider)
    \/ \E world \in FlowWorlds : ScrapeData(world)
    \/ CreateTasks
    \/ \E p \in Platforms : TaskStart(p)
    \/ ScrapeUrlsStep
    \/ \E p \in Platforms : TaskAfterScrape(p)
    \/ \E p \in Platforms : TaskFilter(p)
    \/ \E p \in Platforms, outcome \in KickoffOutcomes : TaskKickoff(p, outcome)
    \/ GatherAndPrint

SpecLlm == InitLlm /\ [][NextLlm]_vars

----------------------------------------------------------------------------
(* The dummy collection and the dummy client.                              *)

\* As create_collection, but a registered name gets a new, empty collection.
create_collection_replaces(name) ==
    /\ Len(objects) < MaxObjects
    /\ objects' = Append(objects, DummyCollection(name))
    /\ collections' = [n \in DOMAIN collections \cup {name} |->
                          IF n = name THEN Len(objects) + 1 ELSE collections[n]]
    /\ returned' = Called("create_collection", 0, name, <<>>, Len(objects) + 1, FALSE)
    /\ UNCHANGED flowVars

\* What create_collection and get_collection both do, lines 67-69 and 73-75:
\* the registered object is returned, or a new one is registered first.
Lookup(op, name) ==
    /\ IF name \in DOMAIN collections
       THEN /\ UNCHANGED <<objects, collections>>
            /\ returned' = Called(op, 0, name, <<>>, collections[name], FALSE)
       ELSE /\ Len(objects) < MaxObjects
            /\ objects' = Append(objects, DummyCollection(name))
            /\ collections' = [n \in DOMAIN collections \cup {name} |->
                                  IF n = name THEN Len(objects) + 1 ELSE collections[n]]
            /\ returned' = Called(op, 0, name, <<>>, Len(objects) + 1, FALSE)
    /\ UNCHANGED flowVars

create_collection(name) == Lookup("create_collection", name)

get_collection(name) == Lookup("get_collection", name)

\* del self.collections[name] when the name is registered; returns True.
delete_collection(name) ==
    /\ collections' = [n \in DOMAIN collections \ {name} |-> collections[n]]
    /\ returned' = Called("delete_collection", 0, name, <<>>, 0, FALSE)
    /\ UNCHANGED <<objects, flowVars>>

\* collection.add(...) on the object at position o.
add(o, a) ==
    /\ o \in DOMAIN objects
    /\ LET r == CollectionAdd(objects[o], a)
       IN  /\ objects' = [objects EXCEPT ![o] = r.col]
           /\ returned' = Called("add", o, "", a.ids, 0, r.raised)
    /\ UNCHANGED <<collections, flowVars>>

\* collection.delete(ids=ids) on the object at position o.
delete(o, ids) ==
    /\ o \in DOMAIN objects
    /\ LET r == CollectionDelete(objects[o], ids)
       IN  /\ objects' = [objects EXCEPT ![o] = r.col]
           /\ returned' = Called("delete", o, "", ids, 0, r.raised)
    /\ UNCHANGED <<collections, flowVars>>

\* One collection, constructed with the default name, and every add and
\* delete call on it: ids lists with and without repeated ids, and
\* documents, metadatas and embeddings lists absent, shorter or complete.
InitCollection ==
    /\ credentials = Credentials
    /\ app = AppAt("cli", "start")
    /\ StateDefaults
    /\ collections = <<>>
    /\ objects = <<DummyCollection("dummy_collection")>>
    /\ returned = NotCalled

NextCollection ==
    \/ \E ids \in IdSeqs :
          \E nd, nm, ne \in 0..Len(ids) : add(1, AddArgs(ids, nd, nm, ne))
    \/ \E ids \in IdSeqs : delete(1, ids)

SpecCollection == InitCollection /\ [][NextCollection]_vars

\* One client: any sequence of its calls, and adds on the collection objects
\* it handed out, also on those no longer registered.
InitChroma ==
    /\ credentials = Credentials
    /\ app = AppAt("cli", "start")
    /\ StateDefaults
    /\ NoClient

NextChroma ==
    \/ \E name \in CollectionNames : create_collection(name)
    \/ \E name \in CollectionNames : get_collection(name)
    \/ \E name \in CollectionNames : delete_collection(name)
    \/ \E o \in DOMAIN objects, id \in DocIds : add(o, AddArgs(<<id>>, 1, 1, 1))

SpecChroma == InitChroma /\ [][NextChroma]_vars

----------------------------------------------------------------------------
(* Properties of the flow.                                                 *)

FlowEnded == fpc \in {"returned", "raised"}

\* Index of the first raw record whose extraction raises, or Len + 1.
FirstRaising(recs) ==
    IF \E k \in DOMAIN recs : ExtractRaises(recs[k])
    THEN CHOOSE k \in DOMAIN recs :
            /\ ExtractRaises(recs[k])
            /\ \A j \in 1..(k - 1) : ~ExtractRaises(recs[j])
    ELSE Len(recs) + 1

\* What a platform's task, run on its own, leaves in the state for a given
\* bucket and given answers of the scraper and of the crew.
Alone(q, bucket, sv) ==
    LET recs == IF bucket = <<>> THEN <<>> ELSE sv.scrape
        n    == FirstRaising(recs) - 1
    IN  [scrape   |-> recs,
         filtered |-> [k \in 1..n |-> Extract(q, recs[k])],
         crew     |-> IF recs = <<>> \/ n < Len(recs) THEN NoneValue
                      ELSE IF sv.kickoff = "report" THEN CrewOutput(Report)
                      ELSE IF sv.kickoff = "no_pydantic" THEN CrewOutput(NoneValue)
                      ELSE NoneValue,
         scrape_called  |-> bucket # <<>>,
         kickoff_called |-> recs # <<>> /\ n = Len(recs)]

\* C1: failure isolation.  However the other platforms' tasks ended, the
\* flow is never stuck while tasks remain, every platform's task is served
\* its own remote calls, and at the end of the run each platform's
\* scrape_response, filtered_scrape_response and crew_response are those of
\* its task run alone on its own bucket and its own remote answers.
C1_FailureIsolation ==
    /\ fpc = "gather" => ENABLED Next
    /\ FlowEnded =>
          \A q \in Platforms :
             LET a == Alone(q, platform_search_response[q], served[q])
             IN  /\ scrape_response[q] = a.scrape
                 /\ filtered_scrape_response[q] = a.filtered
                 /\ crew_response[q] = a.crew
                 /\ served[q].scrape_called = a.scrape_called
                 /\ (served[q].kickoff # "not_called") = a.kickoff_called

\* LinkedIn's task ended with an exception, X's scrape came back empty, and
\* Instagram still has its report.
C1_Witness ==
    /\ FlowEnded
    /\ task["linkedin"] = "raised"
    /\ platform_search_response["x"] # <<>>
    /\ scrape_response["x"] = <<>>
    /\ crew_response["instagram"] = CrewOutput(Report)

\* C2: the run never raises because of one platform's failure.
C2_RunNeverRaises == fpc # "raised"

\* C3: whenever a platform's summarizer raised or could not produce a result
\* conforming to the report schema, the platform's crew_response is None
\* once its task has ended, and the error was printed by that task.
C3_SummarizerFailureLeavesNone ==
    \A p \in Platforms :
       (TaskDone(p) /\ served[p].kickoff \in {"raises", "no_pydantic"})
          => /\ crew_response[p] = NoneValue
             /\ "analysis_error" \in log[p]
             /\ task[p] = "returned"

\* C4: a platform whose bucket is empty when the tasks run is skipped:
\* scrape_urls is never entered for it, no trigger, poll, snapshot or
\* kickoff call is made, its fields stay empty and its report stays None.
C4_EmptyBucketSkipped ==
    \A p \in Platforms :
       (fpc \in {"gather", "returned", "raised"} /\ platform_search_response[p] = <<>>)
          => /\ calls[p] = NoCalls
             /\ sc.owner # p
             /\ served[p] = NotServed
             /\ scrape_response[p] = <<>>
             /\ filtered_scrape_response[p] = <<>>
             /\ crew_response[p] = NoneValue
             /\ task[p] \in {"created", "returned"}
             /\ task[p] = "returned" => log[p] = {"no_urls"}

\* YouTube's bucket was empty and its task returned, while LinkedIn's task
\* made remote calls.
C4_Witness ==
    /\ FlowEnded
    /\ platform_search_response["youtube"] = <<>>
    /\ task["youtube"] = "returned"
    /\ platform_search_response["linkedin"] # <<>>
    /\ calls["linkedin"].trigger = 1

----------------------------------------------------------------------------
(* Properties of the bucketing.                                            *)

Matches(p, r) == \E m \in Markers(p) : Contains(m, LowerUrl(GetLink(r)))

\* The first platform, in the order LinkedIn, Instagram, YouTube, X, one of
\* whose markers occurs in the lower-cased link of r; "none" if there is none.
FirstMatch(r) ==
    IF \E p \in Platforms : Matches(p, r)
    THEN PlatformOrder[CHOOSE i \in DOMAIN PlatformOrder :
                          /\ Matches(PlatformOrder[i], r)
                          /\ \A j \in 1..(i - 1) : ~Matches(PlatformOrder[j], r)]
    ELSE "none"

\* C5: every item of a bucket has that bucket's platform as its first
\* matching platform, and a bucket holds no more items than the search
\* returned for its platform: an item goes to at most one bucket, the first
\* matching one, and an item matching no marker goes to none.
C5_FirstMatchOnly ==
    fpc = "scrape_data_done" =>
       \A p \in Platforms :
          /\ \A k \in DOMAIN platform_search_response[p] :
                FirstMatch(platform_search_response[p][k]) = p
          /\ Len(platform_search_response[p]) <=
                Cardinality({i \in DOMAIN search_response :
                                FirstMatch(search_response[i]) = p})

\* A YouTube link that contains linkedin.com is in the LinkedIn bucket only,
\* and an item without a link was returned by the search.
C5_Witness ==
    /\ fpc = "scrape_data_done"
    /\ \E k \in DOMAIN platform_search_response["linkedin"] :
          platform_search_response["linkedin"][k].title = "yt_li"
    /\ platform_search_response["youtube"] = <<>>
    /\ \E i \in DOMAIN search_response : search_response[i] = NoLinkItem

\* C6: after the bucketing every bucket holds at most total_results items.
C6_BucketWithinLimit ==
    fpc = "scrape_data_done" =>
       \A p \in Platforms : Len(platform_search_response[p]) <= total_results

----------------------------------------------------------------------------
(* Properties of the extraction and of the tasks' error handling.          *)

\* C7: extraction raises for no raw record the scrape returned, and a task
\* whose scrape result is not empty gets every record of it normalized.
C7_ExtractionNeverRaises ==
    \A p \in Platforms :
       /\ \A k \in DOMAIN scrape_response[p] : ~ExtractRaises(scrape_response[p][k])
       /\ task[p] \in {"analyse", "returned", "raised"} =>
             Len(filtered_scrape_response[p]) = Len(scrape_response[p])

\* C8: no exception leaves a platform's coroutine, and a task that ended
\* without a report printed a message saying why.
C8_ErrorsCaughtInPipeline ==
    \A p \in Platforms :
       /\ task[p] # "raised"
       /\ (TaskDone(p) /\ ~Truthy(crew_response[p])) => log[p] # {}

----------------------------------------------------------------------------
(* Properties of scrape_urls.                                              *)

Polls(f) == Cardinality({k \in DOMAIN f.history : f.history[k].req = "poll"})

IsReady(resp) ==
    /\ ~resp.transport_error
    /\ resp.json_ok
    /\ "status" \in DOMAIN resp.body
    /\ resp.body.status = "ready"

\* The job was polled and no poll reported 'ready'.
NeverReady(f) ==
    /\ Polls(f) > 0
    /\ \A k \in DOMAIN f.history :
          f.history[k].req = "poll" => ~IsReady(f.history[k].resp)

\* C9: the poll loop goes on only while the time since start_time is within
\* the timeout, so a job is polled at most Timeout / PollInterval + 2 times;
\* a call whose job never became 'ready' returns [] no later than the
\* timeout plus one poll interval plus one status request, and the task
\* stores [] as its scrape_response.
C9_NeverReadyReturnsEmpty ==
    /\ sc.pc = "sleep" => sc.elapsed <= Timeout
    /\ Polls(sc) <= (Timeout \div PollInterval) + 2
    /\ (sc.pc = "returned" /\ NeverReady(sc)) =>
          /\ sc.result = <<>>
          /\ sc.elapsed <= Timeout + PollInterval + MaxLatency
    /\ \A p \in Platforms :
          (served[p].scrape_called /\ calls[p].poll /\ calls[p].snapshot = 0)
             => scrape_response[p] = <<>> /\ TaskDone(p)

\* A job polled eight times without becoming 'ready': the call returned []
\* on the timeout 70 time units after start_time.
C9_Witness ==
    /\ sc.pc = "returned"
    /\ "timeout" \in sc.log
    /\ Polls(sc) = 8
    /\ sc.elapsed = Timeout + PollInterval
    /\ sc.result = <<>>

C9_WitnessStored ==
    /\ calls["linkedin"].poll
    /\ calls["linkedin"].snapshot = 0
    /\ task["linkedin"] = "returned"
    /\ scrape_response["linkedin"] = <<>>

\* A request of the call failed: transport error, trigger not answered with
\* status 200 and a JSON body holding snapshot_id, status body that is not
\* JSON or has no status, snapshot body that is not JSON.
FailedExchange(h) ==
    \/ h.resp.transport_error
    \/ h.req = "trigger" /\ ( \/ h.resp.status_code # 200
                              \/ ~h.resp.json_ok
                              \/ "snapshot_id" \notin DOMAIN h.resp.body )
    \/ h.req = "poll" /\ (~h.resp.json_ok \/ "status" \notin DOMAIN h.resp.body)
    \/ h.req = "snapshot" /\ ~h.resp.json_ok

TimedOut(f) ==
    /\ f.elapsed > Timeout
    /\ f.history # <<>>
    /\ f.history[Len(f.history)].req = "poll"
    /\ ~IsReady(f.history[Len(f.history)].resp)

C11_EmptyInputNoRequest ==
    (sc.pc # "idle" /\ sc.input_urls = <<>>) =>
       /\ sc.pc = "returned"
       /\ sc.result = <<>>
       /\ sc.history = <<>>
       /\ calls[sc.owner] = NoCalls

\* A call with no URL has returned, having printed only that there is
\* nothing to scrape.
C11_Witness ==
    /\ sc.pc = "returned"
    /\ sc.input_urls = <<>>
    /\ sc.log = {"no_urls_to_scrape"}
    /\ sc.result = <<>>

\* The trigger was answered with status 200 and a JSON body holding snapshot_id.
TriggerOk(resp) ==
    /\ ~resp.transport_error
    /\ resp.status_code = 200
    /\ resp.json_ok
    /\ "snapshot_id" \in DOMAIN resp.body

\* C12: the requests of one call are made in the order trigger, status
\* polls, snapshot.  The trigger is the first request and the only trigger;
\* a status poll follows a successful trigger or a poll that was not
\* 'ready'; the snapshot is the last request, made at most once and right
\* after a poll that reported 'ready'; a call that timed out fetched no
\* snapshot.
C12_RequestOrder ==
    LET h == sc.history
        n == Len(sc.history)
    IN  /\ \A k \in 1..n : (h[k].req = "trigger") <=> (k = 1)
        /\ n >= 2 => TriggerOk(h[1].resp)
        /\ \A k \in 2..n :
              /\ h[k].req = "poll" =>
                    \/ k = 2
                    \/ h[k - 1].req = "poll" /\ ~IsReady(h[k - 1].resp)
              /\ h[k].req = "snapshot" =>
                    /\ k = n
                    /\ k > 2
                    /\ h[k - 1].req = "poll"
                    /\ IsReady(h[k - 1].resp)
        /\ sc.pc = "first_poll" => n = 1
        /\ sc.pc = "snapshot" => h[n].req = "poll" /\ IsReady(h[n].resp)
        /\ "timeout" \in sc.log => \A k \in 1..n : h[k].req # "snapshot"

\* A job that was 'running' at the first poll and 'ready' at the second: the
\* call made four requests and returned the snapshot.
C12_Witness ==
    /\ sc.pc = "returned"
    /\ Len(sc.history) = 4
    /\ ~IsReady(sc.history[2].resp)
    /\ sc.history[4].req = "snapshot"
    /\ sc.result # <<>>

----------------------------------------------------------------------------
(* Properties of the join and of the caller.                               *)

\* A step of the task of platform q is possible.
CanStep(q) ==
    ENABLED ( \/ TaskStart(q)
              \/ ScrapeUrlsStep /\ sc.owner = q
              \/ TaskAfterScrape(q)
              \/ TaskFilter(q)
              \/ \E outcome \in KickoffOutcomes : TaskKickoff(q, outcome) )

\* C13: the four tasks are created together before any of them runs; a task
\* that raised neither cancels a task that has not ended (the first such
\* task, in creation order, can take a step) nor lets gather return; the
\* printing of the reports and the aggregation of the app happen only when
\* the four tasks have ended.
C13_TasksJoined ==
    /\ \A p \in Platforms :
          task[p] # "none" =>
             /\ fpc \in {"gather", "returned", "raised"}
             /\ \A q \in Platforms : task[q] # "none"
    /\ fpc = "gather" =>
          \A q \in Platforms :
             (~TaskDone(q) /\ \A r \in Platforms :
                                 PlatformIndex(r) < PlatformIndex(q) => TaskDone(r))
                => /\ CanStep(q)
                   /\ ~ENABLED GatherAndPrint
    /\ fpc \in {"returned", "raised"} => \A p \in Platforms : TaskDone(p)
    /\ app.pc = "done" => \A p \in Platforms : TaskDone(p)

\* LinkedIn's task raised; after it X's task triggered its scrape job and
\* got a report, and the app has aggregated.
C13_Witness ==
    /\ app.pc = "done"
    /\ task["linkedin"] = "raised"
    /\ calls["x"].trigger = 1
    /\ crew_response["x"] = CrewOutput(Report)

\* C14: when flow.kickoff() returned, has_results is true exactly when one
\* of the four crew responses is not None; when it is false the app shows
\* the warning and no error, and keeps the flow's state, with its search
\* buckets, as the response; when it is true no warning is shown.
C14_HasResultsAggregation ==
    (app.pc = "done" /\ app.error = "none") =>
       /\ app.has_results <=> (\E p \in Platforms : crew_response[p] # NoneValue)
       /\ app.warning <=> ~app.has_results
       /\ app.response = StoredState(platform_search_response, crew_response)

\* A run in which the search filled LinkedIn's bucket and no platform got a
\* report: the app shows the warning and holds the state.
C14_Witness ==
    /\ app.pc = "done"
    /\ app.warning
    /\ app.response.type = "State"
    /\ app.response.buckets["linkedin"] = platform_search_response["linkedin"]
    /\ platform_search_response["linkedin"] # <<>>
    /\ \A p \in Platforms : crew_response[p] = NoneValue

\* A run in which exactly one platform got a report.
C14_WitnessOneReport ==
    /\ app.pc = "done"
    /\ app.has_results
    /\ crew_response["instagram"] = CrewOutput(Report)
    /\ \A p \in Platforms \ {"instagram"} : crew_response[p] = NoneValue

----------------------------------------------------------------------------
(* Properties of the platform tasks.                                       *)

\* C15: in every state and for every platform, the crew response is not
\* None only if the filtered records are not empty, the filtered records are
\* not empty only if the scrape result is not empty, and that only if the
\* bucket is not empty; the crew is never started on an empty record list.
C15_ReportNeedsRecords ==
    \A p \in Platforms :
       /\ crew_response[p] # NoneValue => filtered_scrape_response[p] # <<>>
       /\ filtered_scrape_response[p] # <<>> => scrape_response[p] # <<>>
       /\ scrape_response[p] # <<>> => platform_search_response[p] # <<>>
       /\ (task[p] = "analyse" \/ calls[p].kickoff > 0) =>
             filtered_scrape_response[p] # <<>>

\* YouTube's report was written from two filtered records, while LinkedIn's
\* scrape came back empty and its crew was never started.
C15_Witness ==
    /\ crew_response["youtube"] = CrewOutput(Report)
    /\ Len(filtered_scrape_response["youtube"]) = 2
    /\ served["linkedin"].scrape_called
    /\ scrape_response["linkedin"] = <<>>
    /\ calls["linkedin"].kickoff = 0
    /\ task["linkedin"] = "returned"

\* C16: in every state and for every platform, the scrape result and the
\* filtered records each hold at most total_results entries.
C16_ScrapeWithinLimit ==
    \A p \in Platforms :
       /\ Len(scrape_response[p]) <= total_results
       /\ Len(filtered_scrape_response[p]) <= total_results

\* C17: while one task waits between two status polls, every other task
\* that has not ended can take a step.
C17_OthersRunDuringPoll ==
    (fpc = "gather" /\ sc.pc = "sleep") =>
       \A q \in Platforms \ {sc.owner} : ~TaskDone(q) => CanStep(q)

\* The task of platform p is the one the event loop is running.
Running(p) == Scheduled(p) /\ ~TaskDone(p)

\* C18: a step of the task of platform p changes neither the scrape result,
\* the filtered records and the crew response of any other platform, nor
\* the four buckets, the raw search results, the queries, brand_name,
\* total_results and llm_provider.
C18_TaskFrame ==
    [][ \A p \in Platforms :
           Running(p) =>
              /\ \A q \in Platforms \ {p} :
                    /\ scrape_response'[q] = scrape_response[q]
                    /\ filtered_scrape_response'[q] = filtered_scrape_response[q]
                    /\ crew_response'[q] = crew_response[q]
              /\ UNCHANGED <<configVars, searchVars>> ]_vars

\* Instagram's task has run to its report after LinkedIn's task had written
\* its own two records and report, which are still there.
C18_Witness ==
    /\ task["instagram"] = "returned"
    /\ crew_response["instagram"] = CrewOutput(Report)
    /\ Len(scrape_response["instagram"]) = 1
    /\ crew_response["linkedin"] = CrewOutput(Report)
    /\ Len(filtered_scrape_response["linkedin"]) = 2

\* C19: nothing is retried.  For each platform at most one scrape job is
\* triggered, at most one snapshot is fetched and the crew is started at
\* most once; and once a platform's task has ended, no step changes its
\* position, its fields, its calls, its messages, or enters scrape_urls
\* for it.
C19_NoRetry ==
    [][ \A p \in Platforms :
           /\ calls'[p].trigger <= 1
           /\ calls'[p].snapshot <= 1
           /\ calls'[p].kickoff <= 1
           /\ TaskDone(p) =>
                 /\ task'[p] = task[p]
                 /\ scrape_response'[p] = scrape_response[p]
                 /\ filtered_scrape_response'[p] = filtered_scrape_response[p]
                 /\ crew_response'[p] = crew_response[p]
                 /\ calls'[p] = calls[p]
                 /\ log'[p] = log[p]
                 /\ served'[p] = served[p]
                 /\ sc'.owner # p ]_vars

\* The run has ended; LinkedIn's only trigger request failed and nothing
\* more was tried for it, and YouTube's only kickoff raised.
C19_Witness ==
    /\ FlowEnded
    /\ calls["linkedin"] = [trigger |-> 1, poll |-> FALSE, snapshot |-> 0, kickoff |-> 0]
    /\ task["linkedin"] = "returned"
    /\ calls["youtube"].kickoff = 1
    /\ served["youtube"].kickoff = "raises"
    /\ crew_response["youtube"] = NoneValue

----------------------------------------------------------------------------
(* Properties of the entry points.                                         *)

\* The credentials a run needs: the three of Bright Data, and the Groq key
\* when the run uses Groq (the app always does; the command line uses the
\* default provider of the state, Ollama).
RequiredCredentials ==
    IF app.entry = "app" THEN Credentials ELSE BrightDataCredentials

\* C20: a run started while a required credential is missing makes no
\* search query, no scrape request and no kickoff, and ends with a
\* configuration error shown to the caller.
C20_MissingCredentialStopsRun ==
    (app.pc # "start" /\ ~(RequiredCredentials \subseteq credentials)) =>
       /\ queries = <<>>
       /\ \A p \in Platforms : calls[p] = NoCalls
       /\ app.pc = "done" => app.error \in {"groq_key_required", "bright_data_required"}

----------------------------------------------------------------------------
(* Properties of the search.                                               *)

\* A search request answered with status 200 and a JSON body that has an
\* 'organic' entry.
QuerySucceeded(resp) ==
    /\ ~resp.transport_error
    /\ resp.status_code = 200
    /\ resp.json_ok
    /\ "organic" \in DOMAIN resp.body

\* What the k-th query of the search that was run contributes.
Contribution(k) ==
    IF QuerySucceeded(search_served[k]) THEN search_served[k].body.organic ELSE <<>>

\* C21: the search never raises and issues its four queries in the order
\* LinkedIn, Instagram, YouTube, X, whatever the answers.  A query that
\* failed contributes nothing and every query that succeeded, before or
\* after a failed one, contributes all its items; when the four queries
\* fail the result is empty.
C21_SearchFailsSoft ==
    /\ fpc \in {"constructed", "scrape_data_done"}
    /\ fpc = "scrape_data_done" =>
          /\ Len(queries) = NumQueries
          /\ Len(search_served) = NumQueries
          /\ \A k \in 1..NumQueries : queries[k].site = PlatformOrder[k]
          /\ Len(search_response) =
                Len(Contribution(1)) + Len(Contribution(2)) +
                Len(Contribution(3)) + Len(Contribution(4))
          /\ \A k \in 1..NumQueries : \A j \in DOMAIN Contribution(k) :
                \E i \in DOMAIN search_response : search_response[i] = Contribution(k)[j]
          /\ (\A k \in 1..NumQueries : ~QuerySucceeded(search_served[k]))
                => search_response = <<>>

\* The first three queries failed, each in a different way, and the items of
\* the fourth are the result.
C21_Witness ==
    /\ fpc = "scrape_data_done"
    /\ search_served[1] = SearchTransportError
    /\ search_served[2] = SearchBadStatus
    /\ search_served[3] = SearchBadJson
    /\ search_served[4] = SearchOk(OrganicX)
    /\ search_response = OrganicX

\* C22: the search result is the concatenation, in query order, of the
\* 'organic' arrays of the queries that succeeded, each in the provider's
\* order and nothing removed: an item two queries returned is there twice.
C22_SearchConcatenates ==
    fpc = "scrape_data_done" =>
       search_response =
          Contribution(1) \o Contribution(2) \o Contribution(3) \o Contribution(4)

\* The LinkedIn and the X query returned the same three items and the
\* YouTube query its own: the result holds the three items twice, around
\* YouTube's.
C22_Witness ==
    /\ fpc = "scrape_data_done"
    /\ search_served[1] = SearchOk(OrganicLinkedIn)
    /\ search_served[2] = SearchNoOrganic
    /\ search_served[3] = SearchOk(OrganicVideo)
    /\ search_served[4] = SearchOk(OrganicLinkedIn)
    /\ Len(search_response) = 9
    /\ search_response[1] = search_response[7]
    /\ search_response[4] = OrganicVideo[1]

----------------------------------------------------------------------------
(* End-to-end scenarios.                                                   *)

\* The search found two LinkedIn links and one YouTube link and nothing for
\* Instagram and X; the scrape returned records for LinkedIn and [] for
\* YouTube; LinkedIn's crew returned a report; the app is done.
ScenarioMixed ==
    /\ app.pc = "done"
    /\ Len(platform_search_response["linkedin"]) = 2
    /\ Len(platform_search_response["youtube"]) = 1
    /\ platform_search_response["instagram"] = <<>>
    /\ platform_search_response["x"] = <<>>
    /\ served["linkedin"].scrape # <<>>
    /\ served["linkedin"].kickoff = "report"
    /\ served["youtube"].scrape_called
    /\ served["youtube"].scrape = <<>>

\* C23: in the scenario above the run returns with LinkedIn's report set,
\* YouTube's report None after its empty scrape (no kickoff for it),
\* Instagram's and X's reports None with no remote call made and
\* scrape_urls never entered for them, and has_results true with no error
\* and no warning.
C23_EndToEndMixed ==
    ScenarioMixed =>
       /\ fpc = "returned"
       /\ crew_response["linkedin"] = CrewOutput(Report)
       /\ crew_response["youtube"] = NoneValue
       /\ calls["youtube"].kickoff = 0
       /\ "no_content" \in log["youtube"]
       /\ \A p \in {"instagram", "x"} :
             /\ crew_response[p] = NoneValue
             /\ calls[p] = NoCalls
             /\ served[p] = NotServed
             /\ log[p] = {"no_urls"}
       /\ app.error = "none"
       /\ app.has_results
       /\ ~app.warning

\* The scenario, with YouTube's job having been triggered and polled.
C23_Witness ==
    /\ ScenarioMixed
    /\ app.has_results
    /\ calls["youtube"].trigger = 1
    /\ calls["youtube"].poll
    /\ Len(filtered_scrape_response["linkedin"]) = 2

AllBucketsEmpty == \A p \in Platforms : platform_search_response[p] = <<>>

\* C24: when the four buckets are empty after scrape_data, whether the
\* search returned nothing or only items of no platform, the tasks are still
\* created and the flow is never stuck; every task returns at its first
\* test, no scrape request and no kickoff is made, the run returns with the
\* four crew responses None, has_results is false with the warning and no
\* error, and the raw search results section of the page lists no link.
C24_EndToEndEmpty ==
    AllBucketsEmpty =>
       /\ fpc \in {"scrape_data_done", "gather"} => ENABLED Next
       /\ fpc # "raised"
       /\ \A p \in Platforms :
             /\ calls[p] = NoCalls
             /\ served[p] = NotServed
             /\ crew_response[p] = NoneValue
             /\ fpc = "returned" => task[p] = "returned" /\ log[p] = {"no_urls"}
       /\ sc = IdleFrame
       /\ app.pc = "done" =>
             /\ fpc = "returned"
             /\ ~app.has_results
             /\ app.warning
             /\ app.error = "none"
       /\ app.display.rendered =>
             /\ ~app.display.error
             /\ app.display.raw_section
             /\ app.display.reports = {}
             /\ \A p \in Platforms : app.display.raw[p] = <<>>

\* The search returned one item, of no platform: the classification ran,
\* the four tasks returned and the page was rendered.
C24_Witness ==
    /\ search_response # <<>>
    /\ AllBucketsEmpty
    /\ app.display.rendered
    /\ \A p \in Platforms : task[p] = "returned"

\* The search returned nothing and the classification was skipped.
C24_WitnessNothingFound ==
    /\ fpc = "returned"
    /\ search_response = <<>>
    /\ app.display.rendered
    /\ app.display.warning

----------------------------------------------------------------------------
(* Properties of the state over one run and over several runs.             *)

\* s is t with elements appended.
IsPrefix(s, t) == Len(s) <= Len(t) /\ SubSeq(t, 1, Len(s)) = s

\* C25: within a run the state only grows.  Once scrape_data has ended no
\* step changes a bucket or the raw search results; a platform's scrape
\* result is not changed once scrape_urls has returned to the task; its
\* filtered records change only by one record appended at the end; its crew
\* response, once not None, keeps its value.
C25_AppendOnly ==
    [][ /\ fpc \in {"scrape_data_done", "gather", "returned", "raised"} =>
              /\ platform_search_response' = platform_search_response
              /\ search_response' = search_response
        /\ \A p \in Platforms :
              /\ (served[p].scrape_called \/ scrape_response[p] # <<>>) =>
                    scrape_response'[p] = scrape_response[p]
              /\ \/ filtered_scrape_response'[p] = filtered_scrape_response[p]
                 \/ /\ Len(filtered_scrape_response'[p]) =
                          Len(filtered_scrape_response[p]) + 1
                    /\ IsPrefix(filtered_scrape_response[p],
                                filtered_scrape_response'[p])
              /\ crew_response[p] # NoneValue =>
                    crew_response'[p] = crew_response[p] ]_vars

\* LinkedIn's two records were appended one after the other and its report
\* set; the run has ended with them in place.
C25_Witness ==
    /\ FlowEnded
    /\ Len(filtered_scrape_response["linkedin"]) = 2
    /\ filtered_scrape_response["linkedin"][1].url = "u1"
    /\ filtered_scrape_response["linkedin"][2].url = "u2"
    /\ crew_response["linkedin"] = CrewOutput(Report)

\* C26: every run of a session starts from a new state: when the flow of a
\* run has been constructed, the raw search results, the four buckets, the
\* scrape results and the filtered records are empty and the four crew
\* responses are None, whatever an earlier run left, whether it returned,
\* raised or was reset; and during the run every bucket item is one of this
\* run's search results and the filtered records are no more than this
\* run's scrape result.
C26_FreshStatePerRun ==
    /\ fpc = "constructed" =>
          /\ search_response = <<>>
          /\ platform_search_response = EmptyBuckets
          /\ \A p \in Platforms :
                /\ scrape_response[p] = <<>>
                /\ filtered_scrape_response[p] = <<>>
                /\ crew_response[p] = NoneValue
    /\ \A p \in Platforms :
          /\ \A k \in DOMAIN platform_search_response[p] :
                \E i \in DOMAIN search_response :
                   search_response[i] = platform_search_response[p][k]
          /\ Len(platform_search_response[p]) <= Len(search_response)
          /\ Len(filtered_scrape_response[p]) <= Len(scrape_response[p])

\* The second run of a session has just been started; the first one found a
\* LinkedIn link and got a report, which the session still holds.
C26_Witness ==
    /\ app.runs = 2
    /\ fpc = "constructed"
    /\ app.response.type = "State"
    /\ app.response.buckets["linkedin"] # <<>>
    /\ app.response.crew["linkedin"] = CrewOutput(Report)
    /\ platform_search_response["linkedin"] = <<>>

\* The second run was started after the first one raised.
C26_WitnessAfterFailure ==
    /\ app.runs = 2
    /\ fpc = "gather"
    /\ app.response = NoneValue
    /\ platform_search_response["linkedin"] # <<>>

----------------------------------------------------------------------------
(* Properties of the extraction.                                           *)

\* What Instagram's and YouTube's loops build from a record that has only a
\* url (main.py:227-235 and 276-286).
InstagramDefaults ==
    [url |-> "u2", description |-> "No description available", likes |-> "0",
     num_comments |-> "0", is_paid_partnership |-> "False", followers |-> "0",
     original_poster |-> "Unknown user"]

YoutubeDefaults ==
    [url |-> "u2", title |-> "No Title",
     description |-> "No description available",
     original_poster |-> "Unknown creator", verified |-> "False",
     views |-> "0", likes |-> "0", hashtags |-> "[]",
     transcript |-> "No transcript available"]

\* C27: for every platform, each filtered record is what extracting its raw
\* record again gives; it has exactly the platform's key set and the raw
\* record's url; a key the raw record has is copied and a key it lacks gets
\* the platform's default (a record with only a url gives, for Instagram
\* and YouTube, the records above); the raw records are left as the scrape
\* returned them.
C27_ExtractionPure ==
    \A p \in Platforms :
       /\ served[p].scrape_called /\ task[p] # "scraping" =>
             scrape_response[p] = served[p].scrape
       /\ \A k \in DOMAIN filtered_scrape_response[p] :
             LET raw == scrape_response[p][k]
                 n   == filtered_scrape_response[p][k]
             IN  /\ n = Extract(p, raw)
                 /\ DOMAIN n = NormalizedKeys(p)
                 /\ n.url = raw.url
                 /\ raw = FullRecord(p) =>
                       \A key \in DOMAIN n \ {"url"} : n[key] = "raw"
                 /\ (raw = UrlOnlyRecord /\ p = "instagram") => n = InstagramDefaults
                 /\ (raw = UrlOnlyRecord /\ p = "youtube") => n = YoutubeDefaults

\* Instagram's task filtered a full record and a record with only a url,
\* whose likes became "0".
C27_Witness ==
    /\ task["instagram"] = "returned"
    /\ Len(filtered_scrape_response["instagram"]) = 2
    /\ scrape_response["instagram"][2] = UrlOnlyRecord
    /\ filtered_scrape_response["instagram"][2].likes = "0"
    /\ filtered_scrape_response["instagram"][1].likes = "raw"

----------------------------------------------------------------------------
(* Properties of the queries and of the truncation of the buckets.         *)

\* C28: each of the four queries asks for total_results results.
C28_QueryNumIsLimit ==
    fpc = "scrape_data_done" =>
       \A k \in DOMAIN queries : queries[k].num = total_results

\* The raw search results whose first matching platform is p, in order.
ItemsOf(p) == SelectSeq(search_response, LAMBDA r : FirstMatch(r) = p)

\* C30: after the classification each bucket is a prefix of the raw items
\* whose first matching platform is the bucket's, in arrival order; it is
\* shorter than that list only when it is full; so an item that arrived
\* when its bucket was full is in no bucket, whatever other marker its link
\* contains.
C30_BucketIsPrefix ==
    (fpc = "scrape_data_done" /\ search_response # <<>>) =>
       \A p \in Platforms :
          /\ IsPrefix(platform_search_response[p], ItemsOf(p))
          /\ Len(platform_search_response[p]) < Len(ItemsOf(p)) =>
                Len(platform_search_response[p]) = BucketCap

\* Six LinkedIn items arrived; the sixth, whose link also contains x.com,
\* was dropped: LinkedIn's bucket holds the first five and X's is empty.
C30_Witness ==
    /\ fpc = "scrape_data_done"
    /\ Len(search_response) >= 6
    /\ search_response[6].title = "li_c"
    /\ Len(platform_search_response["linkedin"]) = BucketCap
    /\ platform_search_response["linkedin"] = SubSeq(search_response, 1, 5)
    /\ platform_search_response["x"] = <<>>

----------------------------------------------------------------------------
(* Properties of the results section of the page.                          *)

\* C29: whenever the state of a run is displayed, the raw search results
\* section is rendered with the links of every bucket, without an error,
\* whatever the four crew responses are.
C29_RawUrlsAlwaysShown ==
    app.display.rendered =>
       /\ ~app.display.error
       /\ app.display.raw_section
       /\ \A p \in Platforms :
             app.display.raw[p] =
                [k \in DOMAIN app.response.buckets[p] |->
                    app.response.buckets[p][k].link]

----------------------------------------------------------------------------
\* C31: when the provider is groq and GROQ_API_KEY is not set, no crew ever
\* answers: every kickoff made raises inside its task's try block, so every
\* platform's crew response stays None, also those whose filtered records are
\* not empty; has_results is false and the flow does not raise.
C31_MissingGroqKey ==
    (fpc # "not_started" /\ llm_provider = "groq" /\ "groq_api_key" \notin credentials)
        => /\ \A p \in Platforms :
                /\ crew_response[p] = NoneValue
                /\ calls[p].kickoff > 0 =>
                      /\ served[p].kickoff = "raises"
                      /\ "analysis_error" \in log[p]
                      /\ task[p] = "returned"
                /\ (FlowEnded /\ filtered_scrape_response[p] # <<>>
                        /\ task[p] = "returned")
                      => calls[p].kickoff = 1
           /\ ~HasResults(crew_response)
           /\ fpc # "raised"

\* A run without the key has ended, and two platforms had records to analyse.
C31_Witness ==
    /\ fpc = "returned"
    /\ llm_provider = "groq" /\ "groq_api_key" \notin credentials
    /\ \E p, q \in Platforms :
          /\ p # q
          /\ filtered_scrape_response[p] # <<>> /\ calls[p].kickoff = 1
          /\ filtered_scrape_response[q] # <<>> /\ calls[q].kickoff = 1
          /\ crew_response[p] = NoneValue /\ crew_response[q] = NoneValue

----------------------------------------------------------------------------
\* The task of platform p has taken its first step and has not ended.
InProgress(p) == task[p] \in {"scraping", "filter", "analyse"}

\* The task of platform p has started: it has left the state in which it
\* was created, or a request was made for it.
Started(p) == task[p] \notin {"none", "created"} \/ calls[p] # NoCalls

\* C32: the four pipelines run one at a time in the order LinkedIn,
\* Instagram, YouTube, X: a pipeline has started only if every pipeline
\* before it has ended, at most one pipeline is between its first step and
\* its end, and a call of scrape_urls in progress belongs to that pipeline.
C32_OneAtATime ==
    /\ \A p, q \in Platforms :
          (PlatformIndex(q) < PlatformIndex(p) /\ Started(p)) => TaskDone(q)
    /\ Cardinality({p \in Platforms : InProgress(p)}) <= 1
    /\ sc.pc # "idle" => task[sc.owner] = "scraping"

\* X's scrape job is being polled after LinkedIn's pipeline made its
\* trigger, snapshot and crew calls and ended.
C32_Witness ==
    /\ fpc = "gather"
    /\ task["x"] = "scraping" /\ sc.owner = "x" /\ sc.pc = "sleep"
    /\ calls["linkedin"].trigger = 1
    /\ calls["linkedin"].kickoff = 1
    /\ task["linkedin"] = "returned"

----------------------------------------------------------------------------
\* C33: the timeout is tested only after a status poll that was not 'ready'.
\* A poll that reports 'ready' is followed by the snapshot request whatever
\* time has passed, and the call returns what the snapshot request answered;
\* a call returns on the timeout only when its last request is a poll that
\* was answered and was not 'ready', more than Timeout after start_time.
C33_TimeoutAfterNotReady ==
    LET h == sc.history
        n == Len(sc.history)
    IN  /\ \A k \in 1..n :
              (h[k].req = "poll" /\ IsReady(h[k].resp)) =>
                 \/ k = n /\ sc.pc = "snapshot"
                 \/ k = n - 1 /\ h[n].req = "snapshot"
        /\ "timeout" \in sc.log =>
              /\ sc.pc = "returned"
              /\ sc.result = <<>>
              /\ TimedOut(sc)
        /\ (sc.pc = "returned" /\ n > 0 /\ h[n].req = "snapshot"
               /\ ~h[n].resp.transport_error /\ h[n].resp.json_ok)
              => sc.result = h[n].resp.body /\ "timeout" \notin sc.log

\* The poll made 70 time units after start_time, after the deadline, was
\* 'ready': the snapshot was fetched and returned.
C33_Witness ==
    /\ sc.pc = "returned"
    /\ sc.elapsed > Timeout + MaxLatency
    /\ Len(sc.history) > 2
    /\ sc.history[Len(sc.history)].req = "snapshot"
    /\ IsReady(sc.history[Len(sc.history) - 1].resp)
    /\ "done" \in sc.log
    /\ sc.result # <<>>
    /\ sc.result = sc.history[Len(sc.history)].resp.body

----------------------------------------------------------------------------
\* The status request was answered with a status other than 'ready'.
AnsweredNotReady(resp) ==
    /\ ~resp.transport_error
    /\ resp.json_ok
    /\ "status" \in DOMAIN resp.body
    /\ resp.body.status # "ready"

\* Every poll of the call so far was answered 'not ready', and no request
\* took any time: the time since start_time is the time slept.
NotReadyNoLatency(f) ==
    /\ Polls(f) > 0
    /\ \A k \in DOMAIN f.history :
          f.history[k].req = "poll" => AnsweredNotReady(f.history[k].resp)
    /\ f.elapsed = PollInterval * (Polls(f) - 1)

\* C34: with poll interval 10, timeout 60 and requests that take no time, a
\* job that is never 'ready' is polled exactly 8 times and the call returns
\* [] on the timeout when 70 time units have passed since start_time; the
\* test is strict, so up to and at 60 time units the call sleeps and polls
\* once more.
C34_EightPolls ==
    NotReadyNoLatency(sc) =>
       /\ Polls(sc) <= 8
       /\ sc.elapsed <= Timeout + PollInterval
       /\ sc.elapsed <= 60 => sc.pc = "sleep"
       /\ sc.elapsed > 60 =>
             /\ sc.pc = "returned"
             /\ "timeout" \in sc.log
             /\ sc.result = <<>>
             /\ Polls(sc) = 8
             /\ sc.elapsed = 70

\* Seven polls answered 'running', none took time, 60 time units have
\* passed: the call is about to sleep and poll an eighth time.
C34_Witness ==
    /\ NotReadyNoLatency(sc)
    /\ Polls(sc) = 7
    /\ sc.elapsed = Timeout
    /\ sc.pc = "sleep"

----------------------------------------------------------------------------
\* C35: a trigger request answered with a status other than 200, also 201
\* or 202 with a snapshot_id in the body, ends the call: it returns [] and
\* the trigger stays its only request, so no status poll and no snapshot
\* request is made.
C35_TriggerNeeds200 ==
    (/\ sc.history # <<>>
     /\ ~sc.history[1].resp.transport_error
     /\ sc.history[1].resp.status_code # 200)
        => /\ sc.pc = "returned"
           /\ sc.result = <<>>
           /\ "api_error" \in sc.log
           /\ Len(sc.history) = 1
           /\ sc.history[1].req = "trigger"
           /\ Polls(sc) = 0

\* The trigger was answered 201 or 202 with a snapshot_id, and the call
\* returned [] after that one request.
C35_Witness ==
    /\ sc.pc = "returned"
    /\ Len(sc.history) = 1
    /\ sc.history[1].req = "trigger"
    /\ sc.history[1].resp.status_code \in {201, 202}
    /\ "snapshot_id" \in DOMAIN sc.history[1].resp.body
    /\ sc.result = <<>>

----------------------------------------------------------------------------
\* C36: at the end of a run and for every platform, the filtered records are
\* the extraction, entry by entry, of a prefix of the scrape result: the
\* prefix before the first record whose extraction raises.  The two lists
\* have the same length whenever the crew was started for the platform; a
\* record that raises ends the task with an exception, the records before
\* it stored, no crew started and a crew response of None.
C36_FilteredIsPrefixImage ==
    FlowEnded =>
       \A p \in Platforms :
          LET raw == scrape_response[p]
              out == filtered_scrape_response[p]
          IN  /\ Len(out) <= Len(raw)
              /\ \A k \in DOMAIN out : out[k] = Extract(p, raw[k])
              /\ Len(out) = FirstRaising(raw) - 1
              /\ calls[p].kickoff > 0 => Len(out) = Len(raw)
              /\ Len(out) < Len(raw) =>
                    /\ ExtractRaises(raw[Len(out) + 1])
                    /\ task[p] = "raised"
                    /\ calls[p].kickoff = 0
                    /\ crew_response[p] = NoneValue

\* A run has ended in which one platform's second raw record has no url (its
\* first record is stored, no crew was started) and another platform's
\* records were all extracted and handed to its crew.
C36_Witness ==
    /\ FlowEnded
    /\ \E p, q \in Platforms :
          /\ Len(scrape_response[p]) = 2
          /\ Len(filtered_scrape_response[p]) = 1
          /\ task[p] = "raised"
          /\ crew_response[p] = NoneValue
          /\ Len(scrape_response[q]) = 2
          /\ Len(filtered_scrape_response[q]) = 2
          /\ calls[q].kickoff = 1

----------------------------------------------------------------------------
(* Properties of the dummy collection and client.                          *)

\* The value at position k of a list of the collection was passed for the
\* id at position k, or is the default of add.
BelongsTo(col, list, k) ==
    /\ k \in DOMAIN col.ids
    /\ list[k].id \in {col.ids[k], "default"}

\* C37: after any add and delete calls, the four lists of a collection have
\* the same length and position k of each holds what was passed for the id
\* at position k of ids.
C37_ListsAligned ==
    \A o \in DOMAIN objects :
       LET col == objects[o]
       IN  /\ Len(col.documents) = Len(col.ids)
           /\ Len(col.metadatas) = Len(col.ids)
           /\ Len(col.embeddings) = Len(col.ids)
           /\ \A k \in DOMAIN col.documents : BelongsTo(col, col.documents, k)
           /\ \A k \in DOMAIN col.metadatas : BelongsTo(col, col.metadatas, k)
           /\ \A k \in DOMAIN col.embeddings : BelongsTo(col, col.embeddings, k)

\* What the collection holds for the id x: the values at the position of x
\* in ids, where a list is long enough.
Missing(kind) == Value(kind, "missing", 0)

EntryOf(col, x) ==
    LET k == CHOOSE k \in DOMAIN col.ids :
                /\ col.ids[k] = x
                /\ \A m \in 1..(k - 1) : col.ids[m] # x
    IN  [document  |-> IF k <= Len(col.documents) THEN col.documents[k]
                       ELSE Missing("document"),
         metadata  |-> IF k <= Len(col.metadatas) THEN col.metadatas[k]
                       ELSE Missing("metadata"),
         embedding |-> IF k <= Len(col.embeddings) THEN col.embeddings[k]
                       ELSE Missing("embedding")]

NoDuplicates(s) == \A j, k \in DOMAIN s : s[j] = s[k] => j = k

\* C38: ids never holds an id twice; an add leaves what is stored for an
\* id of the call that was present before it unchanged; a delete removes
\* from ids exactly the ids of the call, keeps the order of the others and
\* leaves what is stored for each of them unchanged.
C38_FirstWriteWins ==
    [][ \A o \in DOMAIN objects :
           LET before == objects[o]
               after  == objects'[o]
               Kept(x) == x \notin Range(returned'.ids)
           IN  /\ NoDuplicates(after.ids)
               /\ (returned'.op = "add" /\ returned'.target = o) =>
                     \A x \in Range(returned'.ids) \cap Range(before.ids) :
                        /\ x \in Range(after.ids)
                        /\ EntryOf(after, x) = EntryOf(before, x)
               /\ (returned'.op = "delete" /\ returned'.target = o) =>
                     /\ after.ids = SelectSeq(before.ids, Kept)
                     /\ \A x \in Range(after.ids) :
                           EntryOf(after, x) = EntryOf(before, x) ]_vars

\* C39: each name is registered to at most one collection object, and to
\* one of that name.  create_collection(name) and get_collection(name)
\* return the object registered under name and change nothing when there
\* is one; when there is none they register and return a new, empty
\* collection and change nothing else.  delete_collection of a name that
\* is not registered changes nothing and returns True.
C39_OneObjectPerName ==
    [][ LET r == returned'
        IN  /\ \A n \in DOMAIN collections' :
                  /\ collections'[n] \in DOMAIN objects'
                  /\ objects'[collections'[n]].name = n
                  /\ \A m \in DOMAIN collections' :
                        collections'[m] = collections'[n] => m = n
            /\ r.op \in {"create_collection", "get_collection"} =>
                  /\ ~r.raised
                  /\ r.name \in DOMAIN collections'
                  /\ r.object = collections'[r.name]
                  /\ IF r.name \in DOMAIN collections
                     THEN /\ r.object = collections[r.name]
                          /\ collections' = collections
                          /\ objects' = objects
                     ELSE /\ r.object \notin DOMAIN objects
                          /\ objects'[r.object] = DummyCollection(r.name)
                          /\ \A o \in DOMAIN objects : objects'[o] = objects[o]
                          /\ DOMAIN collections' = DOMAIN collections \cup {r.name}
                          /\ \A n \in DOMAIN collections :
                                collections'[n] = collections[n]
            /\ (r.op = "delete_collection" /\ r.name \notin DOMAIN collections) =>
                  /\ ~r.raised
                  /\ r.object = 0
                  /\ collections' = collections
                  /\ objects' = objects ]_vars

\* get_collection returned the collection registered under a name, with the
\* documents added to it, while a collection created earlier under a name
\* since deleted is still held by its users.
C39_Witness ==
    /\ returned.op = "get_collection"
    /\ returned.name \in DOMAIN collections
    /\ returned.object = collections[returned.name]
    /\ Len(objects[returned.object].ids) = 2
    /\ \E o \in DOMAIN objects : \A n \in DOMAIN collections : collections[n] # o

============================================================================
